---------------------------- MODULE Spec2Model ----------------------------
(***************************************************************************)
(* embeDGG: link classification, resolution and scroll-stable insertion.   *)
(*                                                                         *)
(* The specifications share the definitions of this module:                *)
(*   Spec        the content script's embed pipeline (scan, tryEmbed,      *)
(*               resolver callbacks, injectBelow) over a small document;   *)
(*   SpecScroll  the scroll-stability controller and the media pager       *)
(*               (safeAppendEmbed, maintainStickyAfterAppend, onScroll,    *)
(*               safePageTo) over an integer scroll geometry;              *)
(*   SpecPager   the media pager of a tweet card (show, safePageTo and its  *)
(*               animation frames) together with the scroll listener;      *)
(*   SpecClicks  the pager's clicks and animation frames alone;            *)
(*   SpecReveal  tweet and image cards under blurMedia and the clicks on    *)
(*               their spoiler covers;                                     *)
(*   SpecThumb   the thumbnail refresh timers of two stream cards;         *)
(*   SpecOrder   one message whose two links resolve concurrently;         *)
(*   SpecSync    the settings cache under popup toggles, with the messages  *)
(*               between popup, background and content script in flight;   *)
(*   SpecGone    resolutions that complete after their message or card was  *)
(*               removed from the document;                                *)
(*   SpecTweet   the background fetchTweet handler over the behaviours of  *)
(*               its endpoints, followed by the content script's render;   *)
(*   SpecPage    Spec started under every setting of the host page's       *)
(*               sensitivity controls, which the viewer may switch;        *)
(*   SpecLogin   Spec under a page text that gains and loses "Log in";     *)
(*   SpecGate    Spec under settings whose flags the viewer switches off;  *)
(*   SpecBg      the background's bgFetch handler over URLs and upstream   *)
(*               outcomes;                                                 *)
(*   SpecStore   chrome.storage.sync under onInstalled, getSettings and    *)
(*               setSettings;                                              *)
(*   SpecAppend  safeAppendEmbed (appendChild returning or throwing) next  *)
(*               to the pager's locks;                                     *)
(*   SpecMix     insertions, their settling callbacks, pager locks, the    *)
(*               viewer's scrolls and "more messages below" clicks.        *)
(*                                                                         *)
(* The embed pipeline never reads the scroll state (shouldStick only       *)
(* decides whether scrollTop is written), so Spec leaves the scroll        *)
(* variables alone and SpecScroll explores the insertions' scroll effects. *)
(***************************************************************************)
EXTENDS Integers, Sequences, FiniteSets, TLC

VARIABLES
    \* ---- embed pipeline (content script) ----
    settings,      \* STATE.settings
    page,          \* host page controls read by tryEmbed
    nodes,         \* message nodes: anchors, text markers, inserted wrappers
    pending,       \* requests sent to the background, not yet answered
    nextId,        \* number of requests sent so far
    scans,         \* number of observer callbacks run so far
    trace,         \* what the last handler did (history, for the properties)
    \* ---- scroll controller and pager ----
    sc,            \* scroller geometry + STATE.stickyWanted / insertingEmbed
    settle,        \* per insertion: the settling callbacks still scheduled
    pager,         \* the media pager of one tweet card
    frames,        \* pending requestAnimationFrame callbacks of safePageTo
    hist,          \* what the last scroll/pager handler did (history)
    \* ---- background fetchTweet ----
    tw,            \* the handler's position, upstream outcomes, answer, card
    \* ---- background bgFetch and settings ----
    bgf,           \* one bgFetch message: url, upstream outcome, answer
    sto,           \* chrome.storage.sync and what the last handler did
    \* ---- thumbnail refresh ----
    tm             \* thumbnails of stream cards and their interval timers

embedVars  == <<settings, page, nodes, pending, nextId, scans, trace>>
scrollVars == <<sc, settle, pager, frames, hist>>
tweetVars  == <<tw>>
bgVars     == <<bgf, sto>>
timerVars  == <<tm>>
vars == <<settings, page, nodes, pending, nextId, scans, trace,
          sc, settle, pager, frames, hist, tw, bgf, sto, tm>>

-----------------------------------------------------------------------------
(* Bounds of the model                                                     *)

MaxScans == 2       \* observer callbacks per behaviour
MaxReq == 3         \* requests sent to the background per behaviour
MaxIns == 2         \* card insertions per behaviour
MaxItems == 3       \* media items of the paged tweet card
MaxFrames == 2      \* pager animation-frame callbacks pending at a time
ClientH == 100      \* scroller.clientHeight
InitH == 300        \* scroller.scrollHeight before any insertion
CardH == 60         \* height of an inserted wrapper
GrowH == 40         \* height a wrapper gains when media loads or it re-renders
LineH == 20         \* height of a one-line message

-----------------------------------------------------------------------------
(* URLs.  A hostname is the sequence of its labels, a pathname the         *)
(* sequence of its segments, so that the regular expressions of the source *)
(* become prefix / suffix / containment tests on sequences.                *)

Last(s) == s[Len(s)]

HasSuffix(h, s) ==
    /\ Len(h) >= Len(s)
    /\ SubSeq(h, Len(h) - Len(s) + 1, Len(h)) = s

Contains(h, s) ==
    \E i \in 1..(Len(h) - Len(s) + 1) : SubSeq(h, i, i + Len(s) - 1) = s

\* String.prototype.replace(/^www\./, '') on a hostname
StripWww(h) == IF Len(h) > 0 /\ h[1] = "www" THEN Tail(h) ELSE h

\* url.pathname.split(".").pop(): the text after the last dot of the path
ExtOf(seg) ==
    CASE seg \in {"a.png"}            -> "png"
      [] seg \in {"b.jpg", "123.jpg"} -> "jpg"
      [] seg \in {"v.mp4"}            -> "mp4"
      [] seg \in {"c.webm"}           -> "webm"
      [] OTHER                        -> ""

\* \d+ at the start of a segment
StartsWithDigits(seg) == seg \in {"123", "123.jpg"}

ImageExts == {"png", "jpg", "jpeg", "gif", "webp"}
VideoExts == {"mp4", "webm", "mov"}

MkUrl(h, p) ==
    [tag |-> "url", host |-> h, path |-> p, fmt |-> "", v |-> "",
     target |-> <<>>, hash |-> "", utm |-> FALSE]

\* an href that new URL() cannot parse
BadUrl == [MkUrl(<<>>, <<>>) EXCEPT !.tag = "bad"]
\* no URL at all (an attribute that is not set)
NoUrl == [MkUrl(<<>>, <<>>) EXCEPT !.tag = "none"]

PathExt(u) == IF Len(u.path) = 0 THEN "" ELSE ExtOf(Last(u.path))

\* MEDIA_EXT.test(url.pathname)
MEDIA_EXT(u) == PathExt(u) \in (ImageExts \cup VideoExts)

\* the content script's allow-list: hostnames, compared with Set.has
MEDIA_WHITELIST ==
    { <<"cdn","syndication","twimg","com">>, <<"twitter","com">>,
      <<"mobile","twitter","com">>, <<"pic","twitter","com">>, <<"x","com">>,
      <<"t","co">>, <<"nitter","net">>, <<"fxtwitter","com">>,
      <<"vxtwitter","com">>, <<"imgur","com">>, <<"i","imgur","com">>,
      <<"flickr","com">>, <<"youtube","com">>, <<"youtu","be">>,
      <<"vimeo","com">>, <<"giphy","com">>, <<"media","giphy","com">>,
      <<"tenor","com">>, <<"media","tenor","com">>, <<"streamable","com">>,
      <<"dropbox","com">>, <<"onedrive","live","com">>,
      <<"photos","google","com">>, <<"lh3","googleusercontent","com">>,
      <<"icloud","com">>, <<"res","cloudinary","com">>,
      <<"s3","amazonaws","com">>, <<"cdn","discordapp","com">>,
      <<"i","4cdn","org">>, <<"kick","com">>, <<"twitch","tv">>,
      <<"www","twitch","tv">>, <<"files","catbox","moe">>,
      <<"packaged-media","redd","it">>, <<"reddit","com">>,
      <<"i","redd","it">>, <<"preview","redd","it">>, <<"v","redd","it">>,
      <<"publish","twitter","com">>, <<"pbs","twimg","com">>,
      <<"video","twimg","com">>, <<"i","kym-cdn","com">> }

\* the background's allow-list for bgFetch
BG_WHITELIST ==
    { <<"imgur","com">>, <<"i","imgur","com">>, <<"flickr","com">>,
      <<"www","flickr","com">>, <<"youtube","com">>, <<"www","youtube","com">>,
      <<"youtu","be">>, <<"vimeo","com">>, <<"instagram","com">>,
      <<"www","instagram","com">>, <<"ddinstagram","com">>,
      <<"www","ddinstagram","com">>, <<"giphy","com">>,
      <<"media","giphy","com">>, <<"tenor","com">>, <<"media","tenor","com">>,
      <<"streamable","com">>, <<"dropbox","com">>, <<"onedrive","live","com">>,
      <<"photos","google","com">>, <<"lh3","googleusercontent","com">>,
      <<"icloud","com">>, <<"res","cloudinary","com">>,
      <<"s3","amazonaws","com">>, <<"cdn","discordapp","com">>,
      <<"i","4cdn","org">>, <<"kick","com">>, <<"twitch","tv">>,
      <<"www","twitch","tv">>, <<"i","kym-cdn","com">>, <<"twitter","com">>,
      <<"x","com">>, <<"t","co">>, <<"fxtwitter","com">>, <<"nitter","net">> }

isTwitterImageUrl(u) ==
    /\ StripWww(u.host) = <<"pbs","twimg","com">>
    /\ u.fmt \in {"jpg", "jpeg", "png", "webp", "gif"}

isTwitterVideoUrl(u) ==
    /\ StripWww(u.host) = <<"video","twimg","com">>
    /\ \/ PathExt(u) = "mp4"
       \/ \E i \in 1..(Len(u.path) - 1) : u.path[i] \in {"vid", "mp4"}

isTweetUrlHost(h) ==
    StripWww(h) \in { <<"twitter","com">>, <<"x","com">>,
                      <<"mobile","twitter","com">>, <<"fxtwitter","com">>,
                      <<"vxtwitter","com">>, <<"nitter","net">> }

\* /\/status\/\d+/.test(path) (the /i/web/status/ form is a case of it)
HasStatusPath(u) ==
    \E i \in 1..(Len(u.path) - 1) :
        u.path[i] = "status" /\ StartsWithDigits(u.path[i + 1])

\* the hosts tryEmbed allows: MEDIA_WHITELIST.has(host) or a twimg media URL
IsWhitelisted(u) ==
    u.host \in MEDIA_WHITELIST \/ isTwitterImageUrl(u) \/ isTwitterVideoUrl(u)


-----------------------------------------------------------------------------
(* Extractors                                                              *)

\* the channel of a link text of the exact form "#twitch/<channel>"
TextChannel(t) == IF t = "#twitch/xqc" THEN "xqc" ELSE ""

\* the channel of a hash that starts with "#twitch/<channel>"
HashChannel(h) == IF h = "#twitch/xqc" THEN "xqc" ELSE ""

extractDggBigscreenTwitch(u, linkText) ==
    IF /\ HasSuffix(u.host, <<"destiny","gg">>)
       /\ Len(u.path) > 0 /\ u.path[1] = "bigscreen"
       /\ HashChannel(u.hash) # ""
    THEN HashChannel(u.hash)
    ELSE TextChannel(linkText)

extractYouTubeId(u) ==
    IF u.host = <<"youtu","be">>
    THEN (IF Len(u.path) > 0 THEN u.path[1] ELSE "")
    ELSE IF Contains(u.host, <<"youtube","com">>)
         THEN (IF u.v # "" THEN u.v
               ELSE IF Len(u.path) >= 2 /\ u.path[1] = "shorts" THEN u.path[2]
               ELSE "")
         ELSE ""

\* channel / video of a twitch.tv path; "" stands for null
extractTwitch(u) ==
    IF Len(u.path) >= 2 /\ u.path[1] = "videos"
    THEN [channel |-> "", video |-> u.path[2]]
    ELSE IF Len(u.path) >= 1 THEN [channel |-> u.path[1], video |-> ""]
    ELSE [channel |-> "", video |-> ""]

extractKick(u) ==
    IF Len(u.path) = 0 THEN [channel |-> "", video |-> ""]
    ELSE IF u.path[1] \in {"video", "videos"} /\ Len(u.path) >= 2
         THEN [channel |-> "", video |-> u.path[2]]
         ELSE [channel |-> u.path[1], video |-> ""]

\* /reels/ and /reel/ become /p/, a leading www. is dropped
canonicalizeInstagramUrl(u) ==
    IF ~HasSuffix(StripWww(u.host), <<"instagram","com">>) THEN u
    ELSE [u EXCEPT !.host = StripWww(u.host),
                   !.path = IF Len(u.path) > 0 /\ u.path[1] \in {"reels", "reel"}
                            THEN <<"p">> \o Tail(u.path) ELSE u.path]

\* the same URL on the ddinstagram.com mirror; NoUrl stands for null
buildDdInstagramUrl(u) ==
    IF HasSuffix(StripWww(u.host), <<"instagram","com">>)
    THEN [u EXCEPT !.host = <<"ddinstagram","com">>]
    ELSE NoUrl

\* the post's JSON endpoint: origin + pathname + '/.json?raw_json=1'
RedditApiUrl(u) == [u EXCEPT !.path = u.path \o <<".json">>, !.utm = FALSE]

\* the utm_* query parameters removed
sanitizeRedditUrl(u) == [u EXCEPT !.utm = FALSE]

\* https://www.twitch.tv/<channel> and https://www.twitch.tv/videos/<id>
TwitchChannelUrl(c) == MkUrl(<<"www","twitch","tv">>, <<c>>)
TwitchVideoUrl(v) == MkUrl(<<"www","twitch","tv">>, <<"videos", v>>)

\* a media URL that a fetched page names for `u` (og:image, og:video ...)
PageMedia(u, what) == [u EXCEPT !.hash = what]

-----------------------------------------------------------------------------
(* The document: message nodes and the wrappers inserted into them         *)

Nodes == {"m1", "m2"}

Anchor(u, t) == [url |-> u, text |-> t, tco |-> FALSE]

\* an inserted .edgg-wrap and the card or media element it holds
Wrap(kind, origin, sens) ==
    [kind |-> kind,        \* tweet, img, video, igvideo, igimg, reddit, yt, twitch, kick
     origin |-> origin,    \* data-edgg-origin (NoUrl: attribute not set)
     sens |-> sens,        \* data-edgg-sensitivity ("" : not set)
     src |-> NoUrl,        \* data-edgg-src of an <img>
     body |-> "",          \* tweet card: loading, fallback, oembed, rendered
     link |-> NoUrl,       \* href of the anchor the wrapper contains
     as |-> <<>>,          \* the wrapper's <a href> elements: target and rel
     photos |-> <<>>,      \* photo elements of a tweet card
     videos |-> 0,         \* video elements of a tweet card
     text |-> FALSE,       \* the card shows text
     textOf |-> 0,         \* the pass whose payload the shown text is of
     userOf |-> 0,         \* the pass whose payload the shown author is of
     media |-> FALSE,      \* the wrapper contains an img / video element
     spoiler |-> FALSE,    \* a spoiler cover lies over the media
     covers |-> <<>>,      \* per item of the card's .edgg-tweet-media group:
                           \* plain, covered (blurred under a cover), revealed
     title |-> "",         \* stream card title
     refresh |-> FALSE,    \* a thumbnail refresh timer was started
     passes |-> 0,         \* fetchTweet requests issued for this card
     listen |-> FALSE,     \* a once-only load listener of a tweet render waits
     gone |-> FALSE,       \* the wrapper was removed from the document
     ctx |-> <<>>]         \* what the tryEmbed call behind it had read

\* an <a href> inside a card: the part of the card it is in, where it
\* points, its target attribute and the tokens of its rel attribute
CardLink(part, href, target, rel) ==
    [part |-> part, href |-> href, target |-> target, rel |-> rel]

\* written by the content script: target="_blank" rel="noopener noreferrer"
MadeLink(part, href) == CardLink(part, href, "_blank", {"noopener", "noreferrer"})

\* an anchor of the oEmbed blockquote's html, as Twitter wrote it
HtmlLink(href) == CardLink("text", href, "", {})

LeaveLinks(as) == as

\* retargetLinks(root), over the anchors of the subtree
retargetLinks(as) ==
    [i \in 1..Len(as) |->
        [as[i] EXCEPT !.target = "_blank",
                      !.rel = @ \cup {"noopener", "noreferrer"}]]

\* a reading of the markers that looks for NSFW first
NsfwFirstLabel(nd) ==
    IF nd.nsfw THEN "NSFW" ELSE IF nd.nsfl THEN "NSFL" ELSE ""

\* getSensitivityLabel: NSFL is looked for first
getSensitivityLabel(nd) ==
    IF nd.nsfl THEN "NSFL" ELSE IF nd.nsfw THEN "NSFW" ELSE ""

\* the anchors a wrapper contributes to container.querySelectorAll("a[href]")
WrapAnchors(w) == IF w.link.tag = "url" THEN <<Anchor(w.link, "link")>> ELSE <<>>

RECURSIVE WrapsAnchors(_)
WrapsAnchors(ws) ==
    IF ws = <<>> THEN <<>> ELSE WrapAnchors(Head(ws)) \o WrapsAnchors(Tail(ws))

-----------------------------------------------------------------------------
(* The background service worker: bgFetch and fetchTweet                   *)

\* what an upstream server does with one fetch
Up(st) ==
    [st |-> st,           \* throw (transport error), notok (HTTP error), ok
     json |-> TRUE,       \* the body parses as the JSON the caller expects
     body |-> FALSE,      \* the body is not empty
     final |-> NoUrl,     \* the URL after redirects
     photos |-> <<>>,     \* photo URLs the payload carries
     videos |-> 0,        \* video URLs the payload carries
     text |-> FALSE,      \* the payload carries text
     user |-> FALSE,      \* the payload names the author
     html |-> FALSE,      \* oEmbed: the payload carries html
     cand |-> FALSE,      \* oEmbed html: links another status URL
     nmedia |-> 0,        \* oEmbed html: links to pbs.twimg.com images
     ovideos |-> 0,       \* oEmbed html: links to video.twimg.com .mp4 files
     video |-> FALSE,     \* page: names a direct video URL
     image |-> FALSE,     \* page: names a preview image
     live |-> FALSE]      \* page: shows a live stream

\* what a sendMessage callback receives; st = none stands for null
R0 ==
    [st |-> "none", source |-> "", body |-> FALSE, final |-> NoUrl,
     json |-> FALSE, photos |-> <<>>, videos |-> 0, text |-> FALSE,
     user |-> FALSE,
     html |-> FALSE, ohtml |-> FALSE, cand |-> FALSE, nmedia |-> 0,
     ovideos |-> 0,
     video |-> FALSE, image |-> FALSE, live |-> FALSE,
     error |-> "",        \* the answer's error field
     net |-> FALSE]       \* history: the handler called fetch()

RFail == [R0 EXCEPT !.st = "fail"]

\* the bgFetch handler: allow-list, fetch, answer
BgFetchOpen(u, up) ==
    IF u.tag # "url" THEN [RFail EXCEPT !.error = "exception"]
    ELSE IF up.st = "throw" THEN [RFail EXCEPT !.error = "exception", !.net = TRUE]
    ELSE [R0 EXCEPT !.st = IF up.st = "ok" THEN "ok" ELSE "fail", !.net = TRUE]

BgFetch(u, up) ==
    IF u.tag # "url" THEN [RFail EXCEPT !.error = "exception"]
    ELSE IF u.host \notin BG_WHITELIST
         THEN [RFail EXCEPT !.error = "blocked_by_whitelist"]
    ELSE IF up.st = "throw" THEN [RFail EXCEPT !.error = "exception", !.net = TRUE]
    ELSE [R0 EXCEPT !.st = IF up.st = "ok" THEN "ok" ELSE "fail",
                    !.net = TRUE,
                    !.body = up.body,
                    !.final = IF up.final.tag = "url" THEN up.final ELSE u,
                    !.json = up.json, !.video = up.video, !.image = up.image,
                    !.live = up.live]

MirrorOrder == <<"fx", "vxapi", "vx">>

EnrichEmpty == [photos |-> <<>>, videos |-> 0, text |-> FALSE, log |-> <<>>]

\* enrichFromFxVx's loop over the mirrors, from mirror i on
RECURSIVE EnrichFrom(_, _, _)
EnrichFrom(env, i, out) ==
    IF i > Len(MirrorOrder) THEN out
    ELSE LET m == env[MirrorOrder[i]]
             logged == [out EXCEPT !.log = Append(@, MirrorOrder[i])]
         IN IF m.st # "ok" \/ ~m.json THEN EnrichFrom(env, i + 1, logged)
            ELSE LET t == [logged EXCEPT !.text = @ \/ m.text]
                 IN IF Len(m.photos) > 0 \/ m.videos > 0
                    THEN [t EXCEPT !.photos = m.photos, !.videos = m.videos]
                    ELSE EnrichFrom(env, i + 1, t)

enrichFromFxVx(env, hasId) ==
    IF hasId THEN EnrichFrom(env, 1, EnrichEmpty) ELSE EnrichEmpty

\* photos of the mirror that the structured payload does not list already
MergePhotos(have, extra) ==
    have \o SelectSeq(extra, LAMBDA p : \A i \in 1..Len(have) : have[i] # p)

\* the fetchTweet handler; env gives each endpoint's behaviour.  The result
\* is the answer and the endpoints requested, in order.
FetchTweet(u, env) ==
    LET hasId == u.tag = "url" /\ HasStatusPath(u)
        first == IF hasId THEN "byId" ELSE "byUrl"
        r1 == env[first]
        second == r1.st = "notok" /\ first # "byUrl"
        r == IF second THEN env.byUrl ELSE r1
        log2 == IF second THEN <<first, "byUrl">> ELSE <<first>>
        extra == enrichFromFxVx(env, hasId)
        hasExtra == Len(extra.photos) > 0 \/ extra.videos > 0
        log3 == log2 \o extra.log
        oe == env.oembed
    IN IF r1.st = "throw" THEN [resp |-> RFail, log |-> <<first>>]
       ELSE IF r.st = "throw" THEN [resp |-> RFail, log |-> log2]
       ELSE IF r.st = "ok" THEN
            IF ~r.json THEN [resp |-> RFail, log |-> log2]
            ELSE LET text == r.text \/ (hasExtra /\ extra.text)
                 IN [resp |-> [R0 EXCEPT
                        !.st = "ok", !.source = "cdn",
                        !.photos = IF hasExtra THEN MergePhotos(r.photos, extra.photos)
                                   ELSE r.photos,
                        !.videos = IF hasExtra THEN extra.videos ELSE 0,
                        !.text = text, !.user = r.user,
                        !.ohtml = ~text /\ oe.st = "ok" /\ oe.json /\ oe.html],
                     log |-> IF text THEN log3 ELSE Append(log3, "oembed")]
       ELSE IF hasExtra
            THEN [resp |-> [R0 EXCEPT !.st = "ok", !.source = "vx",
                                      !.photos = extra.photos,
                                      !.videos = extra.videos,
                                      !.text = extra.text],
                  log |-> log3]
       ELSE IF oe.st # "ok" \/ ~oe.json
            THEN [resp |-> RFail, log |-> Append(log3, "oembed")]
       ELSE [resp |-> [R0 EXCEPT !.st = "ok", !.source = "oembed",
                                 !.html = oe.html, !.cand = oe.html /\ oe.cand,
                                 !.user = oe.user,
                                 !.nmedia = IF oe.html THEN oe.nmedia ELSE 0,
                                 !.ovideos = IF oe.html THEN oe.ovideos ELSE 0],
             log |-> Append(log3, "oembed")]

-----------------------------------------------------------------------------
(* The content script: injectBelow, the tweet renders, tryEmbed.           *)
(* A handler's run is a fold over a record st = [nodes, pending, nextId,   *)
(* thrown, ins, sent, tried]: the document, the requests in flight, and    *)
(* what this run has done so far (thrown: an exception is propagating).    *)

\* what tryEmbed read when it classified a link (kept with every request
\* and wrapper that came of the call)
Ctx(nd, a) ==
    [nsfw |-> nd.nsfw, nsfl |-> nd.nsfl, hideNsfw |-> page.hideNsfw,
     hideNsfl |-> page.hideNsfl, showRemoved |-> page.showRemoved,
     logIn |-> page.logIn, logout |-> page.logout, from |-> a.url,
     set |-> settings]

\* pageText.includes("log in") && !pageText.includes("logout")
NeverLoggedOut(p) == FALSE
LoggedOutHeuristic(p) == p.logIn /\ ~p.logout

\* STATE.settings[flag], read when a link is classified
AlwaysOn(flag) == TRUE
FlagOn(flag) == settings[flag]

isHideNsflEnabled == page.hideNsfl
isHideNsfwEnabled == page.hideNsfw
getShowRemovedSetting == page.showRemoved

\* container.appendChild(wrap), through safeAppendEmbed
AppendWrap(st, n, w) ==
    [st EXCEPT !.nodes[n].wraps = Append(@, w), !.ins = @ + 1]

\* applySpoilerIfNeeded(wrap, label, blurMedia || !!label)
applySpoilerIfNeeded(w, label) ==
    [w EXCEPT !.spoiler = @ \/ (w.media /\ (settings.blurMedia \/ label # ""))]

\* applySpoilersInRoot(body, label, blurMedia || !!label) over a group of k
\* media elements: each gets a holder with a cover of its own
applySpoilersInRoot(k, label) ==
    [i \in 1..k |-> IF settings.blurMedia \/ label # "" THEN "covered"
                     ELSE "plain"]

\* a reveal that uncovers the clicked item only
revealClicked(w, i) ==
    IF i = 0 THEN w
    ELSE [w EXCEPT !.covers[i] = "revealed",
                   !.spoiler = \E k \in DOMAIN w.covers :
                                  k # i /\ w.covers[k] = "covered"]

\* revealAllInTweet(media): the handler of every cover; i is the clicked
\* item of the group (0: the cover of a wrapper outside any group, for
\* which closest('.edgg-tweet-media') finds nothing)
revealAllInTweet(w, i) ==
    IF i = 0 THEN w
    ELSE [w EXCEPT !.covers = [k \in DOMAIN @ |->
                                  IF @[k] = "covered" THEN "revealed" ELSE @[k]],
                   !.spoiler = FALSE]

\* injectBelow: an <img> whose src the container already shows is skipped
injectBelow(st, n, w, isImg) ==
    IF isImg /\ \E i \in 1..Len(st.nodes[n].wraps) : st.nodes[n].wraps[i].src = w.src
    THEN st
    ELSE AppendWrap(st, n,
            applySpoilerIfNeeded([w EXCEPT !.as = retargetLinks(@)], w.sens))

\* api.runtime.sendMessage(msg, callback); wi is the wrapper whose card the
\* callback's closure holds
SendFor(st, type, url, cb, n, a, c, wi) ==
    [st EXCEPT !.nextId = @ + 1, !.sent = @ + 1,
               !.pending = @ \cup
                   {[id |-> st.nextId + 1, type |-> type, url |-> url, cb |-> cb,
                     node |-> n, wi |-> wi, a |-> a,
                     ctx |-> c, img |-> FALSE]}]

\* a request sent right after its card was appended
Send(st, type, url, cb, n, a, c) ==
    SendFor(st, type, url, cb, n, a, c, Len(st.nodes[n].wraps))

FirstN(s, k) == IF Len(s) <= k THEN s ELSE SubSeq(s, 1, k)
Min(a, b) == IF a < b THEN a ELSE b

\* renderTweetInto(cardEl, data, originUrl)
renderTweetInto(w, res, originUrl) ==
    LET photos == FirstN(res.photos, 4)
        videos == Min(2, res.videos)
        media == Len(photos) > 0 \/ videos > 0
        \* the links of the text: linkified plain text, the anchors of the
        \* oEmbed html, or the text kept from the previous render
        textLinks == IF res.text THEN <<MadeLink("text", MkUrl(<<"t","co">>, <<"abc">>))>>
                     ELSE IF res.ohtml THEN <<HtmlLink(MkUrl(<<"t","co">>, <<"abc">>))>>
                     ELSE SelectSeq(w.as, LAMBDA l : l.part = "text")
    IN [w EXCEPT !.body = "rendered", !.photos = photos, !.videos = videos,
                 !.text = res.text \/ res.ohtml \/ w.text,
                 !.textOf = IF res.text \/ res.ohtml THEN w.passes ELSE w.textOf,
                 !.userOf = IF res.user THEN w.passes ELSE w.userOf,
                 !.link = originUrl, !.media = media, !.listen = media,
                 !.as = retargetLinks(textLinks \o <<MadeLink("footer", originUrl)>>),
                 !.covers = applySpoilersInRoot(Len(photos) + videos, w.sens),
                 !.spoiler = media /\ (settings.blurMedia \/ w.sens # "")]

\* a failed tweet resolution that leaves the loading card as it is
KeepLoading(w, href) == w

\* the link-only card of a failed tweet resolution
TweetFallback(w, href) ==
    [w EXCEPT !.body = "fallback", !.link = href, !.photos = <<>>,
              !.as = <<MadeLink("text", href)>>,
              !.videos = 0, !.text = FALSE, !.media = FALSE, !.spoiler = FALSE,
              !.textOf = 0, !.userOf = 0, !.listen = FALSE,
              !.covers = <<>>]

\* the render of an oEmbed answer: text, the first 4 inline media (here the
\* html links its images before its videos), footer link
OEmbedRender(w, res, href, label) ==
    LET k == Min(4, res.nmedia)
        kv == Min(4 - k, res.ovideos)
    IN [w EXCEPT !.body = "oembed", !.link = href,
                 !.as = retargetLinks(<<HtmlLink(MkUrl(<<"t","co">>, <<"abc">>)),
                                        MadeLink("footer", href)>>),
                 !.photos = [i \in 1..k |-> 100 + i], !.videos = kv,
                 !.text = TRUE, !.media = k + kv > 0, !.listen = k + kv > 0,
                 !.textOf = w.passes,
                 !.userOf = IF res.user THEN w.passes ELSE 0,
                 !.covers = applySpoilersInRoot(k + kv, label),
                 !.spoiler = k + kv > 0 /\ (settings.blurMedia \/ label # "")]

\* a status URL found in the oEmbed blockquote
CandidateTweetUrl == MkUrl(<<"twitter","com">>, <<"u", "status", "123">>)

\* a stream card (YouTube, Twitch, Kick, bigscreen): appended directly
StreamCard(kind, a, c) ==
    [Wrap(kind, NoUrl, "") EXCEPT !.link = a.url, !.media = TRUE,
                                  !.as = retargetLinks(<<MadeLink("card", a.url)>>),
                                  !.title = "Loading", !.ctx = c]

\* <img src=...> below the message, wrapped in a link to the origin
ImgWrap(kind, origin, src, sens, c) ==
    [Wrap(kind, origin, sens) EXCEPT !.src = src, !.link = origin,
                                     !.as = <<MadeLink("media", origin)>>,
                                     !.media = TRUE, !.ctx = c]

\* <video> (or a block holding one media element) below the message
MediaWrap(kind, origin, sens, c) ==
    [Wrap(kind, origin, sens) EXCEPT !.media = TRUE, !.ctx = c]

\* tryEmbed(a, container); ai is the anchor's index among the message's own
\* anchors (0: an anchor created by a callback or found inside a wrapper)
RECURSIVE tryEmbed(_, _, _, _)
tryEmbed(st0, a, ai, n) ==
    LET st == [st0 EXCEPT !.tried = @ + 1]
        url == a.url
        nd == st.nodes[n]
        sensitivity == getSensitivityLabel(nd)
        c == Ctx(nd, a)
        isTweet == isTweetUrlHost(url.host) /\ HasStatusPath(url)
        isPicShort == StripWww(url.host) = <<"pic","twitter","com">>
        looksLikeMediaPath ==
            MEDIA_EXT(url) \/ isTwitterImageUrl(url) \/ isTwitterVideoUrl(url)
        isWhitelisted == IsWhitelisted(url)
        isTco == url.host = <<"t","co">>
        seenTco == IF ai = 0 THEN a.tco ELSE nd.anchors[ai].tco
        chan == extractDggBigscreenTwitch(url, a.text)
        fileExt == PathExt(url)
        isReddit == HasSuffix(url.host, <<"reddit","com">>)
        target == IF url.target = <<>> THEN NoUrl ELSE url.target[1]
        okHost == \/ StripWww(target.host) \in MEDIA_WHITELIST
                  \/ HasSuffix(StripWww(target.host), <<"redd","it">>)
        \* the tweet branch does not return: control reaches the media branch
        afterTweet ==
            IF FlagOn("enableTweets") /\ isWhitelisted /\ (isTweet \/ isPicShort)
            THEN Send(AppendWrap(st, n,
                        [Wrap("tweet", url, sensitivity) EXCEPT
                            !.body = "loading", !.ctx = c, !.passes = 1]),
                      "fetchTweet", url, "tweet", n, a, c)
            ELSE st
        twi == extractTwitch(url)
        kk == extractKick(url)
    IN
    IF url.tag = "bad" THEN [st EXCEPT !.thrown = TRUE]
    ELSE IF a.text = "(source)" THEN st
    ELSE IF sensitivity = "NSFL" /\ isHideNsflEnabled THEN st
    ELSE IF sensitivity = "NSFW" /\ isHideNsfwEnabled /\ getShowRemovedSetting = "0"
         THEN st
    ELSE IF LoggedOutHeuristic(page) THEN st
    ELSE IF isTco /\ ~seenTco
         THEN Send(IF ai = 0 THEN st
                   ELSE [st EXCEPT !.nodes[n].anchors[ai].tco = TRUE],
                   "bgFetch", url, "tco", n, a, c)
    ELSE IF FlagOn("enableTwitch") /\ chan # ""
         THEN Send(AppendWrap(st, n, StreamCard("bigscreen", a, c)),
                   "bgFetch", TwitchChannelUrl(chan), "twitch", n, a, c)
    ELSE IF FlagOn("enableMedia") /\ isWhitelisted /\ looksLikeMediaPath
            /\ (isTwitterImageUrl(url) \/ fileExt \in ImageExts)
         THEN injectBelow(afterTweet, n,
                          ImgWrap("img", url, url, sensitivity, c), TRUE)
    ELSE IF FlagOn("enableMedia") /\ isWhitelisted /\ looksLikeMediaPath
            /\ (isTwitterVideoUrl(url) \/ fileExt \in VideoExts)
         THEN injectBelow(afterTweet, n,
                          MediaWrap("video", url, sensitivity, c), FALSE)
    ELSE IF FlagOn("enableMedia") /\ isReddit /\ url.path = <<"media">>
            /\ target.tag = "url" /\ okHost /\ PathExt(target) \in ImageExts
         THEN injectBelow(afterTweet, n,
                          ImgWrap("img", url, target, sensitivity, c), TRUE)
    ELSE IF FlagOn("enableMedia") /\ isReddit /\ url.path = <<"media">>
            /\ target.tag = "url" /\ okHost /\ PathExt(target) \in VideoExts
         THEN injectBelow(afterTweet, n,
                          MediaWrap("video", url, sensitivity, c), FALSE)
    ELSE IF FlagOn("enableMedia") /\ HasSuffix(url.host, <<"imgur","com">>)
            /\ ~looksLikeMediaPath
         THEN Send(afterTweet, "bgFetch", url, "imgur", n, a, c)
    ELSE IF FlagOn("enableInstagram") /\ HasSuffix(url.host, <<"instagram","com">>)
         THEN Send(afterTweet, "bgFetch", canonicalizeInstagramUrl(url),
                   "ig1", n, a, c)
    ELSE IF FlagOn("enableMedia") /\ isReddit
            /\ \E i \in 1..Len(url.path) : url.path[i] = "comments"
         THEN Send(afterTweet, "bgFetch", RedditApiUrl(url), "reddit", n, a, c)
    ELSE IF isWhitelisted /\ FlagOn("enableYouTube")
            /\ (Contains(url.host, <<"youtube","com">>)
                \/ Contains(url.host, <<"youtu","be">>))
            /\ extractYouTubeId(url) # ""
         THEN LET s1 == AppendWrap(afterTweet, n, StreamCard("yt", a, c))
                  s2 == Send(s1, "oembed", url, "ytOembed", n, a, c)
              IN Send(s2, "bgFetch", url, "ytLive", n, a, c)
    ELSE IF isWhitelisted /\ FlagOn("enableTwitch")
            /\ Contains(url.host, <<"twitch","tv">>)
            /\ (twi.channel # "" \/ twi.video # "")
         THEN Send(AppendWrap(afterTweet, n, StreamCard("twitch", a, c)),
                   "bgFetch",
                   IF twi.channel # "" THEN TwitchChannelUrl(twi.channel)
                   ELSE TwitchVideoUrl(twi.video),
                   IF twi.channel # "" THEN "twitch" ELSE "twitchVod", n, a, c)
    ELSE IF isWhitelisted /\ FlagOn("enableKick")
            /\ HasSuffix(url.host, <<"kick","com">>)
            /\ (kk.channel # "" \/ kk.video # "")
         THEN Send(AppendWrap(afterTweet, n, StreamCard("kick", a, c)),
                   "bgFetch", url, "kick", n, a, c)
    ELSE afterTweet

-----------------------------------------------------------------------------
(* The sendMessage callbacks of the content script                         *)

\* the YouTube oEmbed handler of the background
YtOembed(u, up) ==
    IF u.tag # "url" THEN RFail
    ELSE IF ~(HasSuffix(u.host, <<"youtube","com">>) \/ u.host = <<"youtu","be">>)
         THEN RFail
    ELSE IF up.st # "ok" \/ ~up.json THEN RFail
    ELSE [R0 EXCEPT !.st = "ok", !.json = TRUE, !.image = up.image]

Usable(res) == res.st = "ok" /\ res.body

\* callback of the tweet branch's fetchTweet
TweetCallback(st, rq, res) ==
    LET n == rq.node
        w == st.nodes[n].wraps[rq.wi]
        href == rq.a.url
        label == getSensitivityLabel([nsfw |-> rq.ctx.nsfw, nsfl |-> rq.ctx.nsfl])
    IN IF res.st # "ok"
       THEN [st EXCEPT !.nodes[n].wraps[rq.wi] = TweetFallback(w, href)]
       ELSE IF res.source = "oembed" /\ res.html
       THEN LET s1 == [st EXCEPT !.nodes[n].wraps[rq.wi] =
                                     OEmbedRender(w, res, href, label)]
            IN IF res.nmedia + res.ovideos = 0 /\ res.cand
               THEN SendFor([s1 EXCEPT !.nodes[n].wraps[rq.wi].passes = @ + 1],
                            "fetchTweet", CandidateTweetUrl, "tweet2", n, rq.a,
                            rq.ctx, rq.wi)
               ELSE s1
       ELSE [st EXCEPT !.nodes[n].wraps[rq.wi] = renderTweetInto(w, res, href)]

\* callback of the second pass (the status URL found in the oEmbed html)
Tweet2Callback(st, rq, res) ==
    IF res.st = "ok"
    THEN [st EXCEPT !.nodes[rq.node].wraps[rq.wi] =
                        renderTweetInto(@, res, rq.a.url)]
    ELSE st

\* a t.co callback that classifies whatever URL the expansion ended at
TcoReclassifyAny(st, rq, res) ==
    IF res.final.tag # "url" THEN st
    ELSE LET r == tryEmbed(st, Anchor(res.final, rq.a.text), 0, rq.node)
         IN [r EXCEPT !.thrown = FALSE]

\* callback of the t.co resolution: tryEmbed on a new anchor for finalUrl
TcoCallback(st, rq, res) ==
    IF res.final.tag # "url" \/ res.final = rq.a.url THEN st
    ELSE LET r == tryEmbed(st, Anchor(res.final, rq.a.text), 0, rq.node)
         IN [r EXCEPT !.thrown = FALSE]      \* try { ... } catch (_) {}

\* resolveAndEmbedImgur's callback
ImgurCallback(st, rq, res) ==
    LET label == getSensitivityLabel([nsfw |-> rq.ctx.nsfw, nsfl |-> rq.ctx.nsfl])
        origin == rq.a.url
    IN IF ~Usable(res) THEN st
       ELSE IF res.video
            THEN injectBelow(st, rq.node, MediaWrap("video", origin, label, rq.ctx), FALSE)
       ELSE IF res.image
            THEN injectBelow(st, rq.node,
                   ImgWrap("img", origin, PageMedia(origin, "og:image"), label, rq.ctx),
                   TRUE)
       ELSE st

\* resolveAndEmbedInstagram: callback of the primary page fetch
InstagramCallback(st, rq, res) ==
    LET label == getSensitivityLabel([nsfw |-> rq.ctx.nsfw, nsfl |-> rq.ctx.nsfl])
        primary == canonicalizeInstagramUrl(rq.a.url)
        altUrl == buildDdInstagramUrl(primary)
    IN IF ~Usable(res) THEN st
       ELSE IF res.video
            THEN injectBelow(st, rq.node,
                             MediaWrap("igvideo", primary, label, rq.ctx), FALSE)
       ELSE LET s1 == Send(st, "bgFetch", altUrl, "ig2", rq.node, rq.a, rq.ctx)
            IN [s1 EXCEPT !.pending =
                   {IF q.id = s1.nextId THEN [q EXCEPT !.img = res.image] ELSE q
                       : q \in s1.pending}]

\* a mirror callback that gives up when the mirror has nothing
MirrorOrNothing(st, rq, r2) ==
    IF Usable(r2) /\ r2.video
    THEN injectBelow(st, rq.node,
                     MediaWrap("igvideo", canonicalizeInstagramUrl(rq.a.url),
                               "", rq.ctx), FALSE)
    ELSE st

\* resolveAndEmbedInstagram: callback of the mirror fetch
InstagramMirrorCallback(st, rq, r2) ==
    LET label == getSensitivityLabel([nsfw |-> rq.ctx.nsfw, nsfl |-> rq.ctx.nsfl])
        primary == canonicalizeInstagramUrl(rq.a.url)
        image == MediaWrap("igimg", primary, label, rq.ctx)
    IN IF ~Usable(r2)
       THEN IF rq.img THEN injectBelow(st, rq.node, image, FALSE) ELSE st
       ELSE IF r2.video
            THEN injectBelow(st, rq.node,
                             MediaWrap("igvideo", primary, label, rq.ctx), FALSE)
       ELSE IF r2.image \/ rq.img THEN injectBelow(st, rq.node, image, FALSE)
       ELSE st

\* resolveAndEmbedReddit's callback
RedditCallback(st, rq, res) ==
    LET label == getSensitivityLabel([nsfw |-> rq.ctx.nsfw, nsfl |-> rq.ctx.nsfl])
        origin == sanitizeRedditUrl(rq.a.url)
    IN IF ~Usable(res) \/ ~res.json THEN st
       ELSE injectBelow(st, rq.node,
              [Wrap("reddit", origin, label) EXCEPT
                  !.link = origin, !.text = TRUE,
                  !.as = <<MadeLink("footer", origin)>>,
                  !.media = res.video \/ res.image, !.ctx = rq.ctx],
              FALSE)

\* the callbacks that fill a stream card
StreamCallback(st, rq, res) ==
    LET n == rq.node
        w == st.nodes[n].wraps[rq.wi]
        live == Usable(res) /\ res.live
        image == Usable(res) /\ (res.image \/ (rq.cb = "twitch" /\ res.live))
    IN CASE rq.cb = "ytOembed" ->
              [st EXCEPT !.nodes[n].wraps[rq.wi].title =
                            IF res.st = "ok" THEN "YouTube" ELSE "YouTube Video"]
         [] rq.cb = "ytLive" ->
              IF Usable(res)
              THEN [st EXCEPT !.nodes[n].wraps[rq.wi].refresh = TRUE]
              ELSE st
         [] rq.cb \in {"twitch", "twitchVod"} ->
              [st EXCEPT !.nodes[n].wraps[rq.wi] =
                  [w EXCEPT !.title = IF rq.cb = "twitch" /\ live THEN "live"
                                      ELSE IF Usable(res) THEN "page" ELSE "default",
                            !.media = image,
                            !.refresh = @ \/ (rq.cb = "twitch" /\ live)]]
         [] OTHER ->     \* kick: the callback reads an undeclared wasLive
              [st EXCEPT !.nodes[n].wraps[rq.wi] =
                  [w EXCEPT !.title = IF live THEN "live"
                                      ELSE IF Usable(res) THEN "page" ELSE "default",
                            !.media = image]]

Callback(st, rq, res) ==
    CASE rq.cb = "tweet" -> TweetCallback(st, rq, res)
      [] rq.cb = "tweet2" -> Tweet2Callback(st, rq, res)
      [] rq.cb = "tco" -> TcoCallback(st, rq, res)
      [] rq.cb = "imgur" -> ImgurCallback(st, rq, res)
      [] rq.cb = "ig1" -> InstagramCallback(st, rq, res)
      [] rq.cb = "ig2" -> InstagramMirrorCallback(st, rq, res)
      [] rq.cb = "reddit" -> RedditCallback(st, rq, res)
      [] OTHER -> StreamCallback(st, rq, res)

-----------------------------------------------------------------------------
(* Scans: maybeEmbedInNode and processBatch                                *)

\* el.querySelectorAll("a[href]"): the message's own anchors, then those of
\* the wrappers already inserted below it (a static list)
AnchorsOf(nd) ==
    [i \in 1..Len(nd.anchors) |-> [a |-> nd.anchors[i], ai |-> i]]
    \o [i \in 1..Len(WrapsAnchors(nd.wraps)) |->
            [a |-> WrapsAnchors(nd.wraps)[i], ai |-> 0]]

\* anchors.forEach(a => tryEmbed(a, el)): an exception ends the loop
RECURSIVE ForEachAnchor(_, _, _)
ForEachAnchor(st, as, n) ==
    IF as = <<>> \/ st.thrown THEN st
    ELSE ForEachAnchor(tryEmbed(st, Head(as).a, Head(as).ai, n), Tail(as), n)

maybeEmbedInNode(st, n) == ForEachAnchor(st, AnchorsOf(st.nodes[n]), n)

\* for (const el of uniq) maybeEmbedInNode(el): an exception ends the loop
RECURSIVE processBatch(_, _)
processBatch(st, b) ==
    IF b = <<>> \/ st.thrown THEN st
    ELSE processBatch(maybeEmbedInNode(st, Head(b)), Tail(b))

RECURSIVE AnchorCount(_)
AnchorCount(b) ==
    IF b = <<>> THEN 0
    ELSE Len(AnchorsOf(nodes[Head(b)])) + AnchorCount(Tail(b))

Start ==
    [nodes |-> nodes, pending |-> pending, nextId |-> nextId,
     thrown |-> FALSE, ins |-> 0, sent |-> 0, tried |-> 0]

Trace(op, b, st, due) ==
    [op |-> op, batch |-> b, thrown |-> st.thrown, ins |-> st.ins,
     sent |-> st.sent, tried |-> st.tried, due |-> due,
     cb |-> "", wi |-> 0, href |-> NoUrl, img |-> FALSE,
     ok |-> FALSE, video |-> FALSE, image |-> FALSE, final |-> NoUrl]

\* a handler's effect on the state of the embed pipeline
Commit(st) ==
    /\ st.nextId <= MaxReq
    /\ nodes' = st.nodes
    /\ pending' = st.pending
    /\ nextId' = st.nextId

-----------------------------------------------------------------------------
(* The documents and upstream behaviours explored                          *)

UTweet == MkUrl(<<"x","com">>, <<"u", "status", "123">>)
UMp4 == MkUrl(<<"files","catbox","moe">>, <<"v.mp4">>)
UPng == MkUrl(<<"i","imgur","com">>, <<"a.png">>)
UImgur == MkUrl(<<"imgur","com">>, <<"gallery">>)
UInsta == MkUrl(<<"www","instagram","com">>, <<"reels", "xyz">>)
URedditPost == MkUrl(<<"www","reddit","com">>, <<"r", "comments", "abc">>)
URedditMedia ==
    [MkUrl(<<"www","reddit","com">>, <<"media">>) EXCEPT
        !.target = <<MkUrl(<<"i","redd","it">>, <<"a.png">>)>>]
UTweetJpg == MkUrl(<<"x","com">>, <<"u", "status", "123.jpg">>)
UTco == MkUrl(<<"t","co">>, <<"abc">>)
UYoutuBe == MkUrl(<<"youtu","be">>, <<"dQw4">>)
UTwitch == MkUrl(<<"www","twitch","tv">>, <<"xqc">>)
UKick == MkUrl(<<"kick","com">>, <<"xqc">>)
UYouTubeWatch == [MkUrl(<<"www","youtube","com">>, <<"watch">>) EXCEPT !.v = "fzVH"]
UBigscreen ==
    [MkUrl(<<"www","destiny","gg">>, <<"bigscreen">>) EXCEPT !.hash = "#twitch/xqc"]
UEvilPng == MkUrl(<<"evil","example">>, <<"a.png">>)
UEvilPage == MkUrl(<<"evil","example">>, <<"page">>)

\* the links a message may carry
Links ==
    { Anchor(u, "link") :
        u \in {UTweet, UMp4, UPng, UImgur, UInsta, URedditPost, URedditMedia,
               UTco, UYoutuBe, UYouTubeWatch, UTwitch, UKick, UBigscreen,
               UEvilPng, UTweetJpg} }
    \cup { Anchor(UEvilPage, "#twitch/xqc"), Anchor(UPng, "(source)"),
           Anchor(BadUrl, "link") }

\* messages with two links
Pairs ==
    { <<x, y>> : x \in {Anchor(BadUrl, "link"), Anchor(UEvilPng, "link"),
                        Anchor(UTweet, "link")},
                 y \in {Anchor(UPng, "link"), Anchor(UMp4, "link")} }

Message(as, nsfw, nsfl) ==
    [anchors |-> as, nsfw |-> nsfw, nsfl |-> nsfl, wraps |-> <<>>, io |-> TRUE,
     gone |-> FALSE]       \* the message was removed from the document

DEFAULTS ==
    [enableMedia |-> TRUE, enableTweets |-> TRUE, enableYouTube |-> TRUE,
     enableTwitch |-> TRUE, enableKick |-> TRUE, enableInstagram |-> TRUE,
     blurMedia |-> FALSE]

PageDefault ==
    [hideNsfw |-> FALSE, hideNsfl |-> FALSE, showRemoved |-> "0",
     logIn |-> FALSE, logout |-> FALSE]

\* behaviours of the upstream servers for one request
PageUps ==
    { Up("throw"), Up("notok"),
      [Up("ok") EXCEPT !.body = TRUE],
      [Up("ok") EXCEPT !.body = TRUE, !.image = TRUE],
      [Up("ok") EXCEPT !.body = TRUE, !.video = TRUE, !.image = TRUE],
      [Up("ok") EXCEPT !.body = TRUE, !.image = TRUE, !.live = TRUE] }

TcoUps ==
    { Up("throw") } \cup
    { [Up("ok") EXCEPT !.body = TRUE, !.final = u] :
         u \in {UTco, UPng, UTweet, UEvilPng} }

\* the endpoints of fetchTweet, all failing
DeadEnv ==
    [byId |-> Up("notok"), byUrl |-> Up("notok"), fx |-> Up("notok"),
     vxapi |-> Up("notok"), vx |-> Up("notok"), oembed |-> Up("notok")]

TweetEnvs ==
    { DeadEnv,
      [DeadEnv EXCEPT !.byId = Up("throw")],
      [DeadEnv EXCEPT !.byId = [Up("ok") EXCEPT !.photos = <<1, 2, 3, 4, 5>>,
                                                !.text = TRUE]],
      [DeadEnv EXCEPT !.vx = [Up("ok") EXCEPT !.photos = <<1>>, !.videos = 3]],
      [DeadEnv EXCEPT !.oembed = [Up("ok") EXCEPT !.html = TRUE, !.cand = TRUE]],
      [DeadEnv EXCEPT !.oembed = [Up("ok") EXCEPT !.html = TRUE, !.nmedia = 5]] }

\* the answers a request can get; R0 stands for null (no receiver)
Answers(rq) ==
    {R0} \cup
    CASE rq.type = "fetchTweet" -> { FetchTweet(rq.url, e).resp : e \in TweetEnvs }
      [] rq.type = "oembed" -> { YtOembed(rq.url, up) : up \in PageUps }
      [] rq.cb = "tco" -> { BgFetch(rq.url, up) : up \in TcoUps }
      [] OTHER -> { BgFetch(rq.url, up) : up \in PageUps }

-----------------------------------------------------------------------------
(* The embed pipeline as a state machine                                   *)

Batches == { <<"m1">>, <<"m2">>, <<"m1", "m2">>, <<"m2", "m1">> }

EmbedIdle ==
    /\ pending = {}
    /\ nextId = 0
    /\ scans = 0
    /\ trace = Trace("init", <<>>, Start, 0)

InitEmbed ==
    /\ settings = DEFAULTS
    /\ page = PageDefault
    /\ \E as \in {<<x>> : x \in Links} \cup Pairs,
          bs \in {<<Anchor(UMp4, "link")>>} :
          nodes = [n \in Nodes |->
                      IF n = "m1" THEN Message(as, FALSE, FALSE)
                      ELSE Message(bs, FALSE, FALSE)]
    /\ EmbedIdle

\* the MutationObserver callback: processBatch over the added nodes
MutationBatch(b) ==
    /\ scans < MaxScans
    /\ LET st == processBatch(Start, b)
       IN /\ Commit(st)
          /\ trace' = Trace("batch", b, st, AnchorCount(b))
    /\ scans' = scans + 1
    /\ UNCHANGED <<settings, page>>

\* the IntersectionObserver callback for one entry: scan, then unobserve
Intersect(n) ==
    /\ scans < MaxScans
    /\ nodes[n].io
    /\ LET st == maybeEmbedInNode(Start, n)
       IN /\ st.nextId <= MaxReq
          /\ nodes' = [st.nodes EXCEPT ![n].io = st.thrown]
          /\ pending' = st.pending
          /\ nextId' = st.nextId
          /\ trace' = Trace("visible", <<n>>, st, AnchorCount(<<n>>))
    /\ scans' = scans + 1
    /\ UNCHANGED <<settings, page>>

\* the background answers a request and the request's callback runs
Respond(rq) ==
    /\ rq \in pending
    /\ \E res \in Answers(rq) :
          LET st == Callback([Start EXCEPT !.pending = pending \ {rq}], rq, res)
          IN /\ Commit(st)
             /\ trace' = [Trace("respond", <<rq.node>>, st, 0) EXCEPT
                             !.cb = rq.cb, !.wi = rq.wi, !.href = rq.a.url,
                             !.img = rq.img,
                             !.ok = IF rq.type = "bgFetch" THEN Usable(res)
                                    ELSE res.st = "ok",
                             !.video = res.video, !.image = res.image,
                             !.final = IF rq.cb = "tco" THEN res.final ELSE NoUrl]
    /\ UNCHANGED <<settings, page, scans>>

\* the viewer activates a spoiler cover: that of item i of the media group
\* of wrapper wi, or (i = 0) the one cover of a wrapper without a group
CoverClick(n, wi, i) ==
    /\ wi \in 1..Len(nodes[n].wraps)
    /\ LET w == nodes[n].wraps[wi]
       IN /\ IF i = 0 THEN w.spoiler /\ w.covers = <<>>
             ELSE i \in DOMAIN w.covers /\ w.covers[i] = "covered"
          /\ nodes' = [nodes EXCEPT ![n].wraps[wi] = revealAllInTweet(w, i)]
    /\ trace' = [Trace(IF i = 0 THEN "revealWrap" ELSE "reveal", <<n>>, Start, 0)
                    EXCEPT !.wi = wi]
    /\ UNCHANGED <<settings, page, pending, nextId, scans>>

-----------------------------------------------------------------------------
(* Scroll stability: safeAppendEmbed, maintainStickyAfterAppend, onScroll  *)

NearBottom == 32     \* isAtBottom's default threshold
StickSlack == 2      \* the threshold of shouldStick and doScroll

Dist(s) == s.H - s.top - ClientH

isAtBottom(s, threshold) == Dist(s) <= threshold

\* scroller.scrollTop = v (clamped by the browser); a change queues a scroll event
SetScrollTop(s, v) ==
    LET max == s.H - ClientH
        t == IF v > max THEN max ELSE IF v < 0 THEN 0 ELSE v
    IN [s EXCEPT !.top = t, !.evt = @ \/ t # s.top]

scrollToBottom(s) == SetScrollTop(s, s.H)

doScroll(s) ==
    IF s.stickyWanted \/ isAtBottom(s, StickSlack) THEN scrollToBottom(s) ELSE s

\* the callbacks maintainStickyAfterAppend schedules, in firing order
Schedule == <<"raf", "t50", "t150", "t300", "t800", "t2000">>

\* one inserted wrapper: step = callbacks of Schedule already fired
Settling(stick, media) ==
    [stick |-> stick,            \* maintainStickyAfterAppend went past its guard
     step |-> IF stick THEN 0 ELSE Len(Schedule),
     load |-> stick /\ media,    \* a once-only load listener is attached
     roDue |-> stick,            \* the ResizeObserver has an observation to deliver
     grown |-> FALSE]            \* the wrapper has reached its final height

Settled ==
    /\ ~sc.evt
    /\ \A k \in 1..Len(settle) : settle[k].step = Len(Schedule) /\ ~settle[k].roDue

\* history: away = the viewer's last scroll left the view more than
\* NearBottom above the bottom and no "more messages below" click followed;
\* jumped = the handler moved scrollTop to the bottom; clicked = the viewer
\* clicked "more messages below" and STATE.stickyWanted has been true since
Hist(op) ==
    [op |-> op, pinnedRun |-> hist.pinnedRun, pos |-> "", idx0 |-> pager.idx,
     away |-> hist.away, jumped |-> FALSE,
     clicked |-> hist.clicked /\ sc'.stickyWanted]

Jumped(s, t) == t.top # s.top /\ Dist(t) = 0

\* a cleanup that does nothing
SkipCleanup(s, wasStickyWanted) == s

\* safeAppendEmbed's finally block
Finally(s, wasStickyWanted) ==
    [s EXCEPT !.insertingEmbed = FALSE,
              !.stickyWanted = IF wasStickyWanted THEN TRUE ELSE @]

\* injectBelow's insertion of a wrapper into a message at position pos
\* (inview, above or below the viewport); anchored: the browser keeps the
\* visible content in place when content above it grows
InsertCard(pos, media, anchored, throws) ==
    /\ Len(settle) < MaxIns
    /\ pos = "above" => sc.top > 0
    /\ pos = "below" => Dist(sc) >= LineH
    /\ LET linkInView == pos = "inview"
           shouldStick == linkInView /\ (sc.stickyWanted \/ isAtBottom(sc, StickSlack))
           wasStickyWanted == sc.stickyWanted
           grownDoc == [sc EXCEPT !.H = @ + CardH, !.insertingEmbed = TRUE]
           appended == IF pos = "above" /\ anchored
                       THEN SetScrollTop(grownDoc, sc.top + CardH)
                       ELSE grownDoc
           \* finally: runs whether appendChild returned or threw
           restored == Finally(IF throws THEN [sc EXCEPT !.insertingEmbed = TRUE]
                               ELSE appended, wasStickyWanted)
           after == IF shouldStick /\ ~throws THEN doScroll(restored) ELSE restored
       IN /\ sc' = after
          /\ settle' = IF throws THEN settle
                       ELSE Append(settle, Settling(shouldStick, media))
          /\ hist' = [Hist(IF throws THEN "insertThrew" ELSE "insert") EXCEPT
                         !.pinnedRun = wasStickyWanted, !.pos = pos,
                         !.jumped = Jumped(sc, after)]
    /\ UNCHANGED <<pager, frames>>

\* the next scheduled callback of insertion k fires
SettleStep(k) ==
    /\ k \in 1..Len(settle)
    /\ settle[k].step < Len(Schedule)
    /\ LET cb == Schedule[settle[k].step + 1]
           after == CASE cb \in {"raf", "t50", "t150", "t300"} -> doScroll(sc)
                      [] cb = "t800" -> IF sc.stickyWanted THEN doScroll(sc) ELSE sc
                      [] OTHER -> sc          \* t2000: ro.disconnect()
       IN /\ sc' = after
          /\ hist' = [Hist("settle") EXCEPT !.jumped = Jumped(sc, after)]
    /\ settle' = [settle EXCEPT ![k].step = @ + 1,
                                ![k].roDue = @ /\ settle[k].step + 1 < Len(Schedule)]
    /\ UNCHANGED <<pager, frames>>

\* wrapper k reaches its final height: its media loads (byLoad) or its card
\* is rendered again
Grow(k, byLoad) ==
    /\ k \in 1..Len(settle)
    /\ ~settle[k].grown
    /\ LET taller == [sc EXCEPT !.H = @ + GrowH]
       IN sc' = IF byLoad /\ settle[k].load THEN doScroll(taller) ELSE taller
    /\ settle' = [settle EXCEPT ![k].grown = TRUE, ![k].load = FALSE,
                                ![k].roDue = @ \/ (settle[k].stick
                                                   /\ settle[k].step < Len(Schedule))]
    /\ hist' = [Hist("grow") EXCEPT !.jumped = Jumped(sc, sc')]
    /\ UNCHANGED <<pager, frames>>

\* the ResizeObserver callback of insertion k
Resized(k) ==
    /\ k \in 1..Len(settle)
    /\ settle[k].roDue
    /\ sc' = IF sc.stickyWanted THEN doScroll(sc) ELSE sc
    /\ settle' = [settle EXCEPT ![k].roDue = FALSE]
    /\ hist' = [Hist("resized") EXCEPT !.jumped = Jumped(sc, sc')]
    /\ UNCHANGED <<pager, frames>>

\* the scroll listener of setupDggMoreBelowHook
onScroll ==
    /\ sc.evt
    /\ sc' = [sc EXCEPT !.evt = FALSE,
                        !.stickyWanted = IF sc.insertingEmbed THEN @
                                         ELSE isAtBottom(sc, NearBottom)]
    /\ hist' = Hist("onScroll")
    /\ UNCHANGED <<settle, pager, frames>>

\* the viewer scrolls to d pixels above the bottom
UserScroll(d) ==
    /\ sc.H - ClientH - d >= 0
    /\ sc.H - ClientH - d # sc.top
    /\ sc' = SetScrollTop(sc, sc.H - ClientH - d)
    /\ hist' = [Hist("userScroll") EXCEPT !.pinnedRun = FALSE,
                                          !.away = d > NearBottom]
    /\ UNCHANGED <<settle, pager, frames>>

\* the viewer clicks the page's "More messages below" banner (shown while
\* the view is not at the bottom)
MoreBelowClick ==
    /\ Dist(sc) > 0
    /\ sc' = [scrollToBottom([sc EXCEPT !.stickyWanted = TRUE]) EXCEPT
                 !.stickyTO = TRUE]
    /\ hist' = [Hist("moreBelow") EXCEPT !.away = FALSE, !.clicked = TRUE]
    /\ UNCHANGED <<settle, pager, frames>>

\* the click's 1000 ms timer: STATE.stickyWanted = isAtBottom(scroller)
MoreBelowTimer ==
    /\ sc.stickyTO
    /\ sc' = [sc EXCEPT !.stickyTO = FALSE,
                        !.stickyWanted = isAtBottom(sc, NearBottom)]
    /\ hist' = Hist("moreBelowTimer")
    /\ UNCHANGED <<settle, pager, frames>>

-----------------------------------------------------------------------------
(* The media pager of a tweet card: initTweetMediaPager                    *)

Max(a, b) == IF a > b THEN a ELSE b

\* an index that wraps around instead of stopping at the ends
WrapAround(i, n) == (i + n) % n

\* idx = Math.max(0, Math.min(i, n - 1))
Clamp(i, n) == Max(0, Min(i, n - 1))

\* show(i): the item at the clamped index is displayed, the others hidden
show(p, i) ==
    LET idx == Clamp(i, Len(p.items))
    IN [p EXCEPT !.idx = idx,
                 !.disp = [k \in 1..Len(p.items) |-> k - 1 = idx]]

\* the pager after initTweetMediaPager: show(0)
NewPager(items) == show([items |-> items, idx |-> 0, disp |-> <<>>], 0)

NoPager == [items |-> <<>>, idx |-> 0, disp |-> <<>>]

\* the laid-out height of a pager item: media are as wide as the card and
\* as high as their own proportions make them (here photos are higher than
\* videos)
ItemH(item) == IF item = "video" THEN CardH ELSE CardH + GrowH

\* the change of the document's height when show(newIdx) hides the
\* displayed item and displays another
Reflow(p, newIdx) ==
    ItemH(p.items[show(p, newIdx).idx + 1]) - ItemH(p.items[p.idx + 1])

\* safePageTo(newIdx): page under a scroll lock held for two animation frames
safePageTo(newIdx, op) ==
    /\ Len(frames) < MaxFrames
    /\ frames' = Append(frames, [stage |-> 1, saved |-> sc.top,
                                 wasInserting |-> sc.insertingEmbed,
                                 wasStickyWanted |-> sc.stickyWanted])
    /\ pager' = show(pager, newIdx)
    /\ sc' = SetScrollTop([sc EXCEPT !.insertingEmbed = TRUE,
                                     !.H = @ + Reflow(pager, newIdx)], sc.top)
    /\ hist' = Hist(op)
    /\ UNCHANGED settle

PagerPrev == Len(pager.items) > 1 /\ safePageTo(pager.idx - 1, "prev")

PagerNext == Len(pager.items) > 1 /\ safePageTo(pager.idx + 1, "next")

\* a click on the displayed item k: videos keep their click, the last item
\* does not advance
ItemClick(k) ==
    /\ Len(pager.items) > 1
    /\ k \in 1..Len(pager.items)
    /\ pager.disp[k]
    /\ pager.items[k] # "video"
    /\ pager.idx < Len(pager.items) - 1
    /\ safePageTo(pager.idx + 1, "item")

\* the oldest pending animation-frame callback of safePageTo runs
PagerFrame ==
    /\ frames # <<>>
    /\ LET f == Head(frames)
           locked == SetScrollTop(sc, f.saved)
       IN IF f.stage = 1
          THEN /\ sc' = locked
               /\ frames' = Append(Tail(frames), [f EXCEPT !.stage = 2])
          ELSE /\ sc' = [locked EXCEPT !.stickyWanted = f.wasStickyWanted,
                                       !.insertingEmbed = f.wasInserting]
               /\ frames' = Tail(frames)
    /\ hist' = Hist("frame")
    /\ UNCHANGED <<settle, pager>>

-----------------------------------------------------------------------------
(* The scroll controller and the pager as state machines                   *)

ScrollIdle ==
    /\ settle = <<>>
    /\ frames = <<>>
    /\ hist = [op |-> "init", pinnedRun |-> FALSE, pos |-> "", idx0 |-> 0,
               away |-> FALSE, jumped |-> FALSE, clicked |-> FALSE]

\* setupDggMoreBelowHook has run its first onScroll()
ScrollerAt(d) ==
    [H |-> InitH, top |-> InitH - ClientH - d, evt |-> FALSE,
     stickyWanted |-> d <= NearBottom, insertingEmbed |-> FALSE,
     stickyTO |-> FALSE]      \* btn.__edggStickyTO is pending

ScrollStarts == {0, LineH, CardH}

\* renderTweetInto lays out the photos first, then the videos
ItemLists ==
    { [k \in 1..n |-> IF k <= ph THEN "img" ELSE "video"] :
        n \in 2..MaxItems, ph \in 0..MaxItems } 

InitScroll ==
    /\ \E d \in ScrollStarts : sc = ScrollerAt(d)
    /\ pager = NoPager
    /\ ScrollIdle

InitPager ==
    /\ \E d \in {0, CardH} : sc = ScrollerAt(d)
    /\ \E items \in ItemLists : pager = NewPager(items)
    /\ ScrollIdle

Aside == UNCHANGED <<embedVars, tweetVars, bgVars, timerVars>>

NextScroll ==
    \/ \E pos \in {"inview", "above", "below"}, media, anchored \in BOOLEAN :
          InsertCard(pos, media, anchored, FALSE) /\ Aside
    \/ \E k \in 1..MaxIns : SettleStep(k) /\ Aside
    \/ \E k \in 1..MaxIns, byLoad \in BOOLEAN : Grow(k, byLoad) /\ Aside
    \/ \E k \in 1..MaxIns : Resized(k) /\ Aside
    \/ onScroll /\ Aside
    \/ \E d \in ScrollStarts : UserScroll(d) /\ Aside

NextPager ==
    \/ PagerPrev /\ Aside
    \/ PagerNext /\ Aside
    \/ \E k \in 1..MaxItems : ItemClick(k) /\ Aside
    \/ PagerFrame /\ Aside
    \/ onScroll /\ Aside
    \/ \E d \in {0, CardH} : UserScroll(d) /\ Aside

\* insertions (appendChild returning or throwing) next to pager locks
NextAppend ==
    \/ \E pos \in {"inview", "below"}, throws \in BOOLEAN :
          InsertCard(pos, TRUE, TRUE, throws) /\ Aside
    \/ PagerNext /\ Aside
    \/ PagerFrame /\ Aside
    \/ onScroll /\ Aside

\* every timer of the insertions so far has fired
TimersDone == \A k \in 1..Len(settle) : settle[k].step = Len(Schedule)

\* everything that moves the scroller: insertions into a visible message
\* and the pager's locks (each explored one at a time), the insertions'
\* callbacks, the viewer
NextMix ==
    \/ TimersDone /\ InsertCard("inview", TRUE, TRUE, FALSE) /\ Aside
    \/ \E k \in 1..MaxIns : SettleStep(k) /\ Aside
    \/ \E k \in 1..MaxIns : Grow(k, TRUE) /\ Aside
    \/ \E k \in 1..MaxIns : Resized(k) /\ Aside
    \/ frames = <<>> /\ PagerNext /\ Aside
    \/ PagerFrame /\ Aside
    \/ onScroll /\ Aside
    \/ \E d \in {0, CardH} : UserScroll(d) /\ Aside
    \/ MoreBelowClick /\ Aside
    \/ MoreBelowTimer /\ Aside

\* a tweet card with two photos
InitOneCard ==
    /\ \E d \in {0, CardH} : sc = ScrollerAt(d)
    /\ pager = NewPager(<<"img", "img">>)
    /\ ScrollIdle

-----------------------------------------------------------------------------
(* fetchTweet and the render of its answer                                 *)

UPicShort == MkUrl(<<"pic","twitter","com">>, <<"abc">>)

\* behaviours of the structured endpoints and of the mirrors
JsonUps ==
    { Up("throw"), Up("notok"), [Up("ok") EXCEPT !.json = FALSE],
      Up("ok"),
      [Up("ok") EXCEPT !.text = TRUE, !.user = TRUE, !.photos = <<1, 2>>] }

MirrorUps ==
    { Up("notok"), [Up("ok") EXCEPT !.text = TRUE],
      [Up("ok") EXCEPT !.photos = <<2, 3, 4, 5, 6>>, !.videos = 3] }

OEmbedUps ==
    { Up("notok"), Up("ok"),
      [Up("ok") EXCEPT !.html = TRUE, !.cand = TRUE, !.user = TRUE],
      [Up("ok") EXCEPT !.html = TRUE, !.nmedia = 5],
      [Up("ok") EXCEPT !.html = TRUE, !.nmedia = 1, !.ovideos = 5] }

Envs ==
    { [byId |-> a, byUrl |-> b, fx |-> c, vxapi |-> Up("notok"), vx |-> d,
       oembed |-> e] :
        a \in JsonUps, b \in {Up("throw"), Up("notok"), Up("ok")},
        c \in MirrorUps, d \in MirrorUps, e \in OEmbedUps }

\* the page of one tweet link: its loading card and the request sent for it
TweetPage(u) ==
    LET a == Anchor(u, "link")
        st == tryEmbed([Start EXCEPT
                           !.nodes = [n \in Nodes |-> Message(<<a>>, FALSE, FALSE)],
                           !.pending = {}, !.nextId = 0],
                       a, 1, "m1")
    IN st

NoTweet == [phase |-> "off"]

InitTweetVar ==
    \E u \in {UTweet, UPicShort}, env \in Envs :
        tw = [phase |-> "sent", env |-> env, st |-> TweetPage(u),
              resp |-> R0, log |-> <<>>, pass |-> 1]

\* the background handles the fetchTweet message in flight
HandleFetchTweet ==
    /\ tw.phase = "sent"
    /\ LET rq == CHOOSE q \in tw.st.pending : TRUE
           out == FetchTweet(rq.url, tw.env)
       IN tw' = [tw EXCEPT !.phase = "answered", !.resp = out.resp, !.log = out.log]

\* the content script's callback renders the answer into the card
RenderAnswer ==
    /\ tw.phase = "answered"
    /\ LET rq == CHOOSE q \in tw.st.pending : TRUE
           st == Callback([tw.st EXCEPT !.pending = {}], rq, tw.resp)
       IN tw' = [tw EXCEPT !.st = st,
                           !.phase = IF st.pending = {} THEN "rendered" ELSE "sent",
                           !.pass = IF st.pending = {} THEN @ ELSE @ + 1]

TheCard == tw.st.nodes["m1"].wraps[1]

\* the callback of expandTcoLinksIn for the i-th anchor of the card: the
\* shortlink's final URL becomes the href, target and rel are set
ExpandTco(i, up) ==
    /\ tw.phase \in {"sent", "answered", "rendered"}
    /\ i \in 1..Len(TheCard.as)
    /\ StripWww(TheCard.as[i].href.host) = <<"t","co">>
    /\ LET res == BgFetch(TheCard.as[i].href, up)
       IN /\ res.final.tag = "url"
          /\ tw' = [tw EXCEPT !.st.nodes["m1"].wraps[1].as[i] =
                        [@ EXCEPT !.href = res.final, !.target = "_blank",
                                  !.rel = @ \cup {"noopener", "noreferrer"}]]

-----------------------------------------------------------------------------
(* The background worker's bgFetch and settings handlers                   *)

MaxWrites == 2       \* setSettings messages explored

\* { ...base, ...over }
DefaultsWin(base, over) ==
    [k \in DOMAIN base \cup DOMAIN over |->
        IF k \in DOMAIN base THEN base[k] ELSE over[k]]

Overlay(base, over) ==
    [k \in DOMAIN base \cup DOMAIN over |->
        IF k \in DOMAIN over THEN over[k] ELSE base[k]]

EmptyStore == [k \in {} |-> FALSE]

\* the popup's checkboxes
keys == {"enableTweets", "enableMedia", "enableYouTube", "enableTwitch",
         "enableKick", "enableInstagram", "blurMedia"}

\* what chrome.storage.sync may hold when the worker starts: nothing, some
\* of the settings, a key of another version
InitStores ==
    UNION { [S -> BOOLEAN] : S \in SUBSET {"enableTweets", "blurMedia", "legacy"} }

StoreIdle == sto = [store |-> EmptyStore, op |-> "off", before |-> EmptyStore,
                    answer |-> EmptyStore, writes |-> 0]

InitStore ==
    \E st \in InitStores :
        sto = [store |-> st, op |-> "start", before |-> EmptyStore,
               answer |-> EmptyStore, writes |-> 0]

\* chrome.runtime.onInstalled: storage.set({ ...DEFAULTS, ...current })
OnInstalled ==
    /\ sto.op # "off"
    /\ sto' = [sto EXCEPT !.store = Overlay(DEFAULTS, sto.store),
                          !.op = "installed", !.before = sto.store,
                          !.answer = EmptyStore]

\* the getSettings message: { ok: true, settings: { ...DEFAULTS, ...cfg } }
GetSettings ==
    /\ sto.op # "off"
    /\ sto' = [sto EXCEPT !.op = "get", !.before = sto.store,
                          !.answer = Overlay(DEFAULTS, sto.store)]

\* the popup's onToggle(k): setSettings with { [k]: checked }
SetSettings(k, v) ==
    /\ sto.op # "off"
    /\ sto.writes < MaxWrites
    /\ sto' = [sto EXCEPT !.store = Overlay(sto.store, [x \in {k} |-> v]),
                          !.op = "set", !.before = sto.store,
                          !.answer = EmptyStore, !.writes = @ + 1]

\* the URLs a bgFetch message may carry
BgUrls ==
    {UTweet, UMp4, UPng, UImgur, UInsta, URedditPost, UTco, UYoutuBe,
     UYouTubeWatch, UTwitch, UKick, UEvilPng, UEvilPage, BadUrl,
     TwitchChannelUrl("xqc"), canonicalizeInstagramUrl(UInsta),
     buildDdInstagramUrl(UInsta), RedditApiUrl(URedditPost)}

BgOff == [phase |-> "off", url |-> NoUrl, up |-> Up("throw"), resp |-> R0]

BgIdle == bgf = BgOff /\ StoreIdle

InitBgFetch ==
    \E u \in BgUrls, up \in PageUps \cup TcoUps :
        bgf = [phase |-> "asked", url |-> u, up |-> up, resp |-> R0]

\* the onMessage listener's bgFetch branch
HandleBgFetch ==
    /\ bgf.phase = "asked"
    /\ bgf' = [bgf EXCEPT !.phase = "answered", !.resp = BgFetch(bgf.url, bgf.up)]

\* the content script sends another bgFetch message
AskBgFetch(u, up) ==
    /\ bgf.phase = "answered"
    /\ bgf' = [phase |-> "asked", url |-> u, up |-> up, resp |-> R0]

-----------------------------------------------------------------------------
(* Thumbnail refresh timers                                                *)

Imgs == {"tw1", "yt1"}   \* the thumb of a Twitch card, of a YouTube card
MaxTimers == 3           \* setInterval calls explored
MaxNow == 5              \* readings of the clock explored

Thumb(inView) ==
    [connected |-> TRUE,    \* imgEl.isConnected
     inView |-> inView,     \* isElementInView(wrap, scroller)
     twTimer |-> 0,         \* imgEl.__edggTwTimer (0: not set, or null)
     thumbTimer |-> 0,      \* imgEl.__edggThumbTimer
     src |-> 0]             \* the t= stamp of imgEl.src (0: as the card set it)

NoTimers == [phase |-> "off"]

clearInterval(active, id) == {x \in active : x.id # id}

\* the update closure of startTwitchThumbAutoRefresh
TwitchUpdate(t, i) ==
    LET im == t.img[i]
    IN IF ~im.connected
       THEN [t EXCEPT !.active = clearInterval(@, im.twTimer),
                      !.img[i].twTimer = 0]
       ELSE IF ~im.inView THEN t
       ELSE [t EXCEPT !.img[i].src = t.now + 1]

\* the update closure of startThumbAutoRefresh
ThumbUpdate(t, i) ==
    LET im == t.img[i]
    IN IF ~im.connected
       THEN [t EXCEPT !.active = clearInterval(@, im.thumbTimer),
                      !.img[i].thumbTimer = 0]
       ELSE IF ~im.inView THEN t
       ELSE [t EXCEPT !.img[i].src = t.now + 1]

\* a start that leaves the running timer of the image alone
startWithoutClear(t, i) ==
    LET t2 == ThumbUpdate(t, i)
        id == t.ids + 1
    IN [t2 EXCEPT !.active = @ \cup {[id |-> id, img |-> i, fn |-> "thumb"]},
                  !.img[i].thumbTimer = id, !.ids = id]

startTwitchThumbAutoRefresh(t, i) ==
    LET old == t.img[i].twTimer
        t1 == [t EXCEPT !.active = IF old # 0 THEN clearInterval(@, old) ELSE @]
        t2 == TwitchUpdate(t1, i)
        id == t.ids + 1
    IN [t2 EXCEPT !.active = @ \cup {[id |-> id, img |-> i, fn |-> "twitch"]},
                  !.img[i].twTimer = id, !.ids = id]

startThumbAutoRefresh(t, i) ==
    LET old == t.img[i].thumbTimer
        t1 == [t EXCEPT !.active = IF old # 0 THEN clearInterval(@, old) ELSE @]
        t2 == ThumbUpdate(t1, i)
        id == t.ids + 1
    IN [t2 EXCEPT !.active = @ \cup {[id |-> id, img |-> i, fn |-> "thumb"]},
                  !.img[i].thumbTimer = id, !.ids = id]

Did(op, i, id) == [op |-> op, img |-> i, id |-> id]

\* a resolver callback starts the refresh of its card's thumb; the call
\* sites start each thumb once, the functions allow a restart
StartRefresh(i) ==
    /\ tm.phase = "on"
    /\ tm.ids < MaxTimers /\ tm.now < MaxNow
    /\ tm' = [(IF i = "tw1" THEN startTwitchThumbAutoRefresh(tm, i)
               ELSE startThumbAutoRefresh(tm, i))
                 EXCEPT !.now = @ + 1, !.last = Did("start", i, 0)]

\* an interval of a scheduled timer elapses
Tick(x) ==
    /\ tm.phase = "on"
    /\ x \in tm.active
    /\ tm.now < MaxNow
    /\ tm' = [(IF x.fn = "twitch" THEN TwitchUpdate(tm, x.img)
               ELSE ThumbUpdate(tm, x.img))
                 EXCEPT !.now = @ + 1, !.last = Did("tick", x.img, x.id)]

\* the chat drops the message of the card, or the callback removes the thumb
Detach(i) ==
    /\ tm.phase = "on"
    /\ tm.img[i].connected
    /\ tm' = [tm EXCEPT !.img[i].connected = FALSE, !.last = Did("detach", i, 0)]

\* the card scrolls out of, or into, the view
ScrollCard(i) ==
    /\ tm.phase = "on"
    /\ tm' = [tm EXCEPT !.img[i].inView = ~@, !.last = Did("scroll", i, 0)]

InitTimers ==
    \E v \in [Imgs -> BOOLEAN] :
        tm = [phase |-> "on", img |-> [i \in Imgs |-> Thumb(v[i])],
              active |-> {}, ids |-> 0, now |-> 0, last |-> Did("", "", 0)]

-----------------------------------------------------------------------------
(* Resolutions that complete after their message or card was removed       *)

\* the wrappers that are in the document
LiveWraps(ns) ==
    {x \in Nodes \X (1..MaxReq + 1) :
        /\ x[2] \in DOMAIN ns[x[1]].wraps
        /\ ~ns[x[1]].gone /\ ~ns[x[1]].wraps[x[2]].gone}

AllDetached(t) ==
    [t EXCEPT !.img = [i \in Imgs |-> [t.img[i] EXCEPT !.connected = FALSE]]]

\* the chat drops message n while a resolution for it is in flight
RemoveMessage(n) ==
    /\ ~nodes[n].gone
    /\ \E rq \in pending : rq.node = n
    /\ nodes' = [nodes EXCEPT ![n].gone = TRUE]
    /\ tm' = [AllDetached(tm) EXCEPT !.last = Did("detach", "", 0)]
    /\ trace' = Trace("remove", <<n>>, Start, 0)
    /\ UNCHANGED <<settings, page, pending, nextId, scans>>

\* the card wrapper that a request in flight will fill is removed
RemoveWrap(n, wi) ==
    /\ ~nodes[n].gone
    /\ wi \in DOMAIN nodes[n].wraps
    /\ ~nodes[n].wraps[wi].gone
    /\ \E rq \in pending : rq.node = n /\ rq.wi = wi
                           /\ rq.cb \in {"tweet", "tweet2", "ytOembed", "ytLive",
                                         "twitch", "twitchVod", "kick"}
    /\ nodes' = [nodes EXCEPT ![n].wraps[wi].gone = TRUE]
    /\ tm' = [AllDetached(tm) EXCEPT !.last = Did("detach", "", 0)]
    /\ trace' = Trace("removeWrap", <<n>>, Start, 0)
    /\ UNCHANGED <<settings, page, pending, nextId, scans>>

\* safeAppendEmbed into a container outside the document: getScrollContainer
\* falls back to document.scrollingElement, isElementInView is false for an
\* element without layout, so shouldStick is false
AppendDetached(s) ==
    Finally([s EXCEPT !.insertingEmbed = TRUE], s.stickyWanted)

\* a resolution completes whose message, or whose card, is gone: the
\* callback, its insertion if it makes one, the refresh it starts
GoneRespond(rq) ==
    /\ \/ nodes[rq.node].gone
       \/ /\ rq.wi \in DOMAIN nodes[rq.node].wraps
          /\ nodes[rq.node].wraps[rq.wi].gone
    /\ Respond(rq)
    /\ sc' = IF Len(nodes'[rq.node].wraps) > Len(nodes[rq.node].wraps)
             THEN AppendDetached(sc) ELSE sc
    /\ LET started == /\ rq.wi \in DOMAIN nodes[rq.node].wraps
                      /\ nodes'[rq.node].wraps[rq.wi].refresh
                      /\ rq.cb \in {"twitch", "ytLive"}
                      /\ tm.ids < MaxTimers /\ tm.now < MaxNow
       IN tm' = IF ~started THEN tm
                ELSE IF rq.cb = "twitch"
                THEN [startTwitchThumbAutoRefresh(tm, "tw1") EXCEPT
                         !.now = @ + 1, !.last = Did("start", "tw1", 0)]
                ELSE [startThumbAutoRefresh(tm, "yt1") EXCEPT
                         !.now = @ + 1, !.last = Did("start", "yt1", 0)]
    /\ UNCHANGED <<settle, pager, frames, hist>>

\* an image or video of a rendered tweet card loads: the listener reads
\* getScrollContainer(card), here the document's scrolling element
CardLoad(n, wi) ==
    /\ wi \in DOMAIN nodes[n].wraps
    /\ nodes[n].wraps[wi].listen
    /\ nodes' = [nodes EXCEPT ![n].wraps[wi].listen = FALSE]
    /\ sc' = IF isAtBottom(sc, NearBottom) THEN scrollToBottom(sc) ELSE sc
    /\ hist' = [Hist("cardLoad") EXCEPT !.jumped = Jumped(sc, sc')]
    /\ trace' = [Trace("cardLoad", <<n>>, Start, 0) EXCEPT !.wi = wi]
    /\ UNCHANGED <<settings, page, pending, nextId, scans, settle, pager, frames>>

-----------------------------------------------------------------------------
(* The settings cache of the content script and the messages that feed it  *)

\* the checkboxes the viewer toggles here
ToggleKeys == {"blurMedia", "enableTweets"}

\* a message in flight; no = the number of the setSettings write behind it
\* (0: the content script's initial load), ver = writes stored when the
\* background read the store
Msg(type, no) == [type |-> type, no |-> no, k |-> "", v |-> FALSE,
                  ver |-> 0, settings |-> EmptyStore]

\* popup.js onToggle(k): setSettings { [k]: checked }
PopupToggle(k, v) ==
    /\ sto.sent < MaxWrites
    /\ sto' = [sto EXCEPT !.sent = @ + 1, !.op = "toggle",
                          !.net = @ \cup {[Msg("setSettings", sto.sent + 1) EXCEPT
                                              !.k = k, !.v = v]}]
    /\ UNCHANGED settings

\* the background's setSettings branch: storage.set, then the broadcast
BgSetSettings(m) ==
    /\ m \in sto.net /\ m.type = "setSettings"
    /\ sto' = [sto EXCEPT !.store = Overlay(sto.store, [x \in {m.k} |-> m.v]),
                          !.writes = @ + 1, !.op = "set",
                          !.net = (@ \ {m}) \cup {Msg("settingsUpdated", m.no)}]
    /\ UNCHANGED settings

\* the content script's onMessage listener: settingsUpdated -> getSettings
OnSettingsUpdated(m) ==
    /\ m \in sto.net /\ m.type = "settingsUpdated"
    /\ sto' = [sto EXCEPT !.op = "updated",
                          !.net = (@ \ {m}) \cup {Msg("getSettings", m.no)}]
    /\ UNCHANGED settings

\* the background's getSettings branch
BgGetSettings(m) ==
    /\ m \in sto.net /\ m.type = "getSettings"
    /\ sto' = [sto EXCEPT !.op = "get",
                          !.net = (@ \ {m}) \cup
                                  {[Msg("response", m.no) EXCEPT
                                       !.ver = sto.writes,
                                       !.settings = Overlay(DEFAULTS, sto.store)]}]
    /\ UNCHANGED settings

\* the getSettings callbacks of the content script (initial load and
\* settingsUpdated): STATE.settings = { ...STATE.settings, ...res.settings }
SettingsResponse(m) ==
    /\ m \in sto.net /\ m.type = "response"
    /\ settings' = Overlay(settings, m.settings)
    /\ sto' = [sto EXCEPT !.op = "response", !.net = @ \ {m},
                          !.applied = m.ver,
                          !.stale = @ \/ m.ver < sto.applied]

\* the content script has started: its first getSettings is in flight
InitSync ==
    \E st \in InitStores :
        sto = [store |-> st, op |-> "start", before |-> EmptyStore,
               answer |-> EmptyStore, writes |-> 0, sent |-> 0,
               net |-> {Msg("getSettings", 0)}, applied |-> 0, stale |-> FALSE]

-----------------------------------------------------------------------------
(* Specifications                                                          *)

Init ==
    /\ InitEmbed
    /\ sc = ScrollerAt(0) /\ pager = NoPager /\ ScrollIdle
    /\ tw = NoTweet
    /\ tm = NoTimers
    /\ BgIdle

Next ==
    \/ \E b \in Batches : MutationBatch(b) /\ UNCHANGED <<scrollVars, tweetVars, bgVars, timerVars>>
    \/ \E n \in Nodes : Intersect(n) /\ UNCHANGED <<scrollVars, tweetVars, bgVars, timerVars>>
    \/ \E rq \in pending : Respond(rq) /\ UNCHANGED <<scrollVars, tweetVars, bgVars, timerVars>>

Spec == Init /\ [][Next]_vars

InitS ==
    /\ settings = DEFAULTS /\ page = PageDefault
    /\ nodes = [n \in Nodes |-> Message(<<>>, FALSE, FALSE)]
    /\ EmbedIdle
    /\ InitScroll
    /\ tw = NoTweet
    /\ tm = NoTimers
    /\ BgIdle

SpecScroll == InitS /\ [][NextScroll]_vars

InitP ==
    /\ settings = DEFAULTS /\ page = PageDefault
    /\ nodes = [n \in Nodes |-> Message(<<>>, FALSE, FALSE)]
    /\ EmbedIdle
    /\ InitPager
    /\ tw = NoTweet
    /\ tm = NoTimers
    /\ BgIdle

SpecPager == InitP /\ [][NextPager]_vars

\* the pager's clicks and animation frames alone
NextClicks ==
    \/ PagerPrev /\ Aside
    \/ PagerNext /\ Aside
    \/ \E k \in 1..MaxItems : ItemClick(k) /\ Aside
    \/ PagerFrame /\ Aside

SpecClicks == InitP /\ [][NextClicks]_vars

InitA ==
    /\ settings = DEFAULTS /\ page = PageDefault
    /\ nodes = [n \in Nodes |-> Message(<<>>, FALSE, FALSE)]
    /\ EmbedIdle
    /\ InitOneCard
    /\ tw = NoTweet
    /\ tm = NoTimers
    /\ BgIdle

SpecAppend == InitA /\ [][NextAppend]_vars

InitM ==
    /\ settings = DEFAULTS /\ page = PageDefault
    /\ nodes = [n \in Nodes |-> Message(<<>>, FALSE, FALSE)]
    /\ EmbedIdle
    /\ sc = ScrollerAt(0) /\ pager = NewPager(<<"img", "img">>) /\ ScrollIdle
    /\ tw = NoTweet
    /\ tm = NoTimers
    /\ BgIdle

SpecMix == InitM /\ [][NextMix]_vars

InitT ==
    /\ settings \in {DEFAULTS, [DEFAULTS EXCEPT !.blurMedia = TRUE]}
    /\ page = PageDefault
    /\ nodes = [n \in Nodes |-> Message(<<>>, FALSE, FALSE)]
    /\ EmbedIdle
    /\ sc = ScrollerAt(0) /\ pager = NoPager /\ ScrollIdle
    /\ InitTweetVar
    /\ tm = NoTimers
    /\ BgIdle

NextTweet ==
    \/ HandleFetchTweet /\ UNCHANGED <<embedVars, scrollVars, bgVars, timerVars>>
    \/ RenderAnswer /\ UNCHANGED <<embedVars, scrollVars, bgVars, timerVars>>
    \/ \E i \in 1..Len(TheCard.as), up \in TcoUps :
          ExpandTco(i, up) /\ UNCHANGED <<embedVars, scrollVars, bgVars, timerVars>>

SpecTweet == InitT /\ [][NextTweet]_vars

\* two messages, one with a tweet link, the other with a tweet, a photo or
\* a YouTube link, under the blur-all setting; the viewer clicks covers
InitReveal ==
    /\ settings = [DEFAULTS EXCEPT !.blurMedia = TRUE]
    /\ page = PageDefault
    /\ \E bs \in {<<Anchor(UTweet, "link")>>, <<Anchor(UPng, "link")>>,
                   <<Anchor(UYoutuBe, "link")>>} :
          nodes = [n \in Nodes |->
                      IF n = "m1" THEN Message(<<Anchor(UTweet, "link")>>, FALSE, FALSE)
                      ELSE Message(bs, FALSE, FALSE)]
    /\ EmbedIdle
    /\ sc = ScrollerAt(0) /\ pager = NoPager /\ ScrollIdle
    /\ tw = NoTweet
    /\ tm = NoTimers
    /\ BgIdle

NextReveal ==
    \/ MutationBatch(<<"m1", "m2">>) /\ UNCHANGED <<scrollVars, tweetVars, bgVars, timerVars>>
    \/ \E rq \in pending : Respond(rq) /\ UNCHANGED <<scrollVars, tweetVars, bgVars, timerVars>>
    \/ \E n \in Nodes, wi \in 1..MaxReq, i \in 0..4 :
          CoverClick(n, wi, i) /\ UNCHANGED <<scrollVars, tweetVars, bgVars, timerVars>>

SpecReveal == InitReveal /\ [][NextReveal]_vars

InitThumb ==
    /\ settings = DEFAULTS /\ page = PageDefault
    /\ nodes = [n \in Nodes |-> Message(<<>>, FALSE, FALSE)]
    /\ EmbedIdle
    /\ sc = ScrollerAt(0) /\ pager = NoPager /\ ScrollIdle
    /\ tw = NoTweet
    /\ BgIdle
    /\ InitTimers

NextThumb ==
    \/ \E i \in Imgs : StartRefresh(i) /\ UNCHANGED <<embedVars, scrollVars, tweetVars, bgVars>>
    \/ \E x \in tm.active : Tick(x) /\ UNCHANGED <<embedVars, scrollVars, tweetVars, bgVars>>
    \/ \E i \in Imgs : Detach(i) /\ UNCHANGED <<embedVars, scrollVars, tweetVars, bgVars>>
    \/ \E i \in Imgs : ScrollCard(i) /\ UNCHANGED <<embedVars, scrollVars, tweetVars, bgVars>>

SpecThumb == InitThumb /\ [][NextThumb]_vars

\* one message with two links whose resolutions are in flight together
Racers == {Anchor(u, "link") : u \in {UTweet, UImgur, UInsta, UTwitch}}

InitOrder ==
    /\ settings = DEFAULTS
    /\ page = PageDefault
    /\ \E x \in Racers, y \in Racers :
          /\ x # y
          /\ nodes = [n \in Nodes |->
                         IF n = "m1" THEN Message(<<x, y>>, FALSE, FALSE)
                         ELSE Message(<<>>, FALSE, FALSE)]
    /\ EmbedIdle
    /\ sc = ScrollerAt(0) /\ pager = NoPager /\ ScrollIdle
    /\ tw = NoTweet
    /\ tm = NoTimers
    /\ BgIdle

NextOrder ==
    \/ MutationBatch(<<"m1">>) /\ UNCHANGED <<scrollVars, tweetVars, bgVars, timerVars>>
    \/ \E rq \in pending : Respond(rq) /\ UNCHANGED <<scrollVars, tweetVars, bgVars, timerVars>>

SpecOrder == InitOrder /\ [][NextOrder]_vars

\* a message with one link, scanned, its insertion settled, the document's
\* scroller d pixels above its bottom
GoneLinks == {UTweet, UImgur, UTwitch, UYoutuBe}

InitGone ==
    /\ settings = DEFAULTS
    /\ page = PageDefault
    /\ scans = 1
    /\ \E u \in GoneLinks :
          LET a == Anchor(u, "link")
              st == tryEmbed([nodes |-> [n \in Nodes |->
                                           IF n = "m1" THEN Message(<<a>>, FALSE, FALSE)
                                           ELSE Message(<<>>, FALSE, FALSE)],
                              pending |-> {}, nextId |-> 0, thrown |-> FALSE,
                              ins |-> 0, sent |-> 0, tried |-> 0],
                             a, 1, "m1")
          IN /\ nodes = st.nodes
             /\ pending = st.pending
             /\ nextId = st.nextId
             /\ trace = Trace("batch", <<"m1">>, st, 1)
    /\ \E d \in ScrollStarts : sc = ScrollerAt(d)
    /\ pager = NoPager /\ ScrollIdle
    /\ tw = NoTweet
    /\ BgIdle
    /\ InitTimers

NextGone ==
    \/ RemoveMessage("m1") /\ UNCHANGED <<scrollVars, tweetVars, bgVars>>
    \/ \E wi \in 1..MaxReq : RemoveWrap("m1", wi) /\ UNCHANGED <<scrollVars, tweetVars, bgVars>>
    \/ \E rq \in pending : GoneRespond(rq) /\ UNCHANGED <<tweetVars, bgVars>>
    \/ \E wi \in 1..MaxReq : CardLoad("m1", wi) /\ UNCHANGED <<tweetVars, bgVars, timerVars>>
    \/ \E x \in tm.active : Tick(x) /\ UNCHANGED <<embedVars, scrollVars, tweetVars, bgVars>>
    \/ onScroll /\ UNCHANGED <<embedVars, tweetVars, bgVars, timerVars>>

SpecGone == InitGone /\ [][NextGone]_vars

InitCache ==
    /\ settings = DEFAULTS /\ page = PageDefault
    /\ nodes = [n \in Nodes |-> Message(<<>>, FALSE, FALSE)]
    /\ EmbedIdle
    /\ sc = ScrollerAt(0) /\ pager = NoPager /\ ScrollIdle
    /\ tw = NoTweet
    /\ tm = NoTimers
    /\ bgf = BgOff
    /\ InitSync

CacheAside == UNCHANGED <<page, nodes, pending, nextId, scans, trace, scrollVars,
                          tweetVars, timerVars, bgf>>

NextSync ==
    \/ \E k \in ToggleKeys, v \in BOOLEAN : PopupToggle(k, v) /\ CacheAside
    \/ \E m \in sto.net : BgSetSettings(m) /\ CacheAside
    \/ \E m \in sto.net : OnSettingsUpdated(m) /\ CacheAside
    \/ \E m \in sto.net : BgGetSettings(m) /\ CacheAside
    \/ \E m \in sto.net : SettingsResponse(m) /\ CacheAside

SpecSync == InitCache /\ [][NextSync]_vars

-----------------------------------------------------------------------------
(* The embed pipeline under the host page's sensitivity controls           *)

InitPage ==
    /\ settings = DEFAULTS
    /\ \E hw, hl \in BOOLEAN, sr \in {"0", "1"} :
          page = [hideNsfw |-> hw, hideNsfl |-> hl, showRemoved |-> sr,
                  logIn |-> FALSE, logout |-> FALSE]
    /\ \E a \in {Anchor(UMp4, "link"), Anchor(UImgur, "link")},
          w, l \in BOOLEAN :
          nodes = [n \in Nodes |->
                      IF n = "m1" THEN Message(<<a>>, w, l)
                      ELSE Message(<<Anchor(UPng, "link")>>, FALSE, FALSE)]
    /\ EmbedIdle
    /\ sc = ScrollerAt(0) /\ pager = NoPager /\ ScrollIdle
    /\ tw = NoTweet
    /\ tm = NoTimers
    /\ BgIdle

\* the viewer changes the host page's show-removed control
ShowRemovedChange(v) ==
    /\ page.showRemoved # v
    /\ page' = [page EXCEPT !.showRemoved = v]
    /\ trace' = Trace("control", <<>>, Start, 0)
    /\ UNCHANGED <<settings, nodes, pending, nextId, scans>>

NextPage ==
    \/ Next
    \/ \E v \in {"0", "1"} : ShowRemovedChange(v) /\ UNCHANGED <<scrollVars, tweetVars, bgVars, timerVars>>

SpecPage == InitPage /\ [][NextPage]_vars

-----------------------------------------------------------------------------
(* The embed pipeline under changing settings and page text                *)

\* one link of every kind tryEmbed classifies
GateLinks ==
    { Anchor(u, "link") :
        u \in {UTweet, UMp4, UPng, UImgur, UInsta, URedditPost, URedditMedia,
               UYoutuBe, UTwitch, UKick, UBigscreen} }

InitGate ==
    /\ settings = DEFAULTS
    /\ page = PageDefault
    /\ \E a \in GateLinks :
          nodes = [n \in Nodes |->
                      IF n = "m1" THEN Message(<<a>>, FALSE, FALSE)
                      ELSE Message(<<>>, FALSE, FALSE)]
    /\ EmbedIdle
    /\ sc = ScrollerAt(0) /\ pager = NoPager /\ ScrollIdle
    /\ tw = NoTweet
    /\ tm = NoTimers
    /\ BgIdle

\* the toggles explored for each link: the flag of the link's kind, and for
\* some links a flag of another kind
GateCases ==
    { <<UTweet, "enableTweets">>, <<UTweet, "enableMedia">>,
      <<UTweet, "blurMedia">>, <<UImgur, "blurMedia">>,
      <<UMp4, "enableMedia">>, <<UMp4, "blurMedia">>, <<UPng, "enableMedia">>,
      <<UImgur, "enableMedia">>, <<URedditPost, "enableMedia">>,
      <<URedditMedia, "enableMedia">>, <<UInsta, "enableInstagram">>,
      <<UYoutuBe, "enableYouTube">>, <<UTwitch, "enableTwitch">>,
      <<UTwitch, "enableKick">>, <<UKick, "enableKick">>,
      <<UBigscreen, "enableTwitch">> }

\* the settingsUpdated listener: STATE.settings = { ...STATE.settings, ...res.settings }
\* (explored: one toggle away from the defaults)
SettingsUpdated(k) ==
    /\ settings = DEFAULTS
    /\ <<nodes["m1"].anchors[1].url, k>> \in GateCases
    /\ settings' = Overlay(settings, [DEFAULTS EXCEPT ![k] = ~DEFAULTS[k]])
    /\ trace' = Trace("settings", <<>>, Start, 0)
    /\ UNCHANGED <<page, nodes, pending, nextId, scans>>

NextGate ==
    \/ Next
    \/ \E k \in keys : SettingsUpdated(k) /\ UNCHANGED <<scrollVars, tweetVars, bgVars, timerVars>>

SpecGate == InitGate /\ [][NextGate]_vars

-----------------------------------------------------------------------------
(* The embed pipeline under the login heuristic                            *)

LoginLinks ==
    { Anchor(u, "link") : u \in {UTweet, UMp4, UImgur, UTco, UYoutuBe, UBigscreen} }

InitLogin ==
    /\ settings = DEFAULTS
    /\ \E li, lo \in BOOLEAN : page = [PageDefault EXCEPT !.logIn = li, !.logout = lo]
    /\ \E a \in LoginLinks :
          nodes = [n \in Nodes |->
                      IF n = "m1" THEN Message(<<a>>, FALSE, FALSE)
                      ELSE Message(<<>>, FALSE, FALSE)]
    /\ EmbedIdle
    /\ sc = ScrollerAt(0) /\ pager = NoPager /\ ScrollIdle
    /\ tw = NoTweet
    /\ tm = NoTimers
    /\ BgIdle

\* the page's text changes: a "Log in" prompt appears or goes
PageTextChange(li) ==
    /\ page.logIn # li
    /\ page' = [page EXCEPT !.logIn = li]
    /\ trace' = Trace("text", <<>>, Start, 0)
    /\ UNCHANGED <<settings, nodes, pending, nextId, scans>>

NextLogin ==
    \/ Next
    \/ \E li \in BOOLEAN : PageTextChange(li) /\ UNCHANGED <<scrollVars, tweetVars, bgVars, timerVars>>

SpecLogin == InitLogin /\ [][NextLogin]_vars

-----------------------------------------------------------------------------
(* The background worker alone                                             *)

InitQuiet ==
    /\ settings = DEFAULTS /\ page = PageDefault
    /\ nodes = [n \in Nodes |-> Message(<<>>, FALSE, FALSE)]
    /\ EmbedIdle
    /\ sc = ScrollerAt(0) /\ pager = NoPager /\ ScrollIdle
    /\ tw = NoTweet
    /\ tm = NoTimers

InitBg == InitQuiet /\ InitBgFetch /\ StoreIdle

NextBg ==
    \/ HandleBgFetch /\ UNCHANGED <<embedVars, scrollVars, tweetVars, timerVars, sto>>
    \/ \E u \in BgUrls, up \in PageUps \cup TcoUps :
          AskBgFetch(u, up) /\ UNCHANGED <<embedVars, scrollVars, tweetVars, timerVars, sto>>

SpecBg == InitBg /\ [][NextBg]_vars

InitSto == InitQuiet /\ bgf = BgOff /\ InitStore

NextStore ==
    \/ OnInstalled /\ UNCHANGED <<embedVars, scrollVars, tweetVars, timerVars, bgf>>
    \/ GetSettings /\ UNCHANGED <<embedVars, scrollVars, tweetVars, timerVars, bgf>>
    \/ \E k \in keys, v \in BOOLEAN :
          SetSettings(k, v) /\ UNCHANGED <<embedVars, scrollVars, tweetVars, timerVars, bgf>>

SpecStore == InitSto /\ [][NextStore]_vars

-----------------------------------------------------------------------------
(* Properties                                                              *)

WrapsOf(n) == { nodes[n].wraps[i] : i \in 1..Len(nodes[n].wraps) }

\* C1: every inserted wrapper comes of a tryEmbed call on an anchor whose
\* host is on the content script's allow-list (or is a twimg media URL).
OnlyAllowListedHostsEmbed ==
    \A n \in Nodes : \A w \in WrapsOf(n) : IsWhitelisted(w.ctx.from)

\* C2: once no resolution is pending, a message holds at most one wrapper
\* per origin URL, however often it was scanned.
OneWrapperPerOrigin ==
    pending = {} =>
        \A n \in Nodes : \A i, j \in 1..Len(nodes[n].wraps) :
            (i < j /\ nodes[n].wraps[i].origin.tag = "url")
                => nodes[n].wraps[i].origin # nodes[n].wraps[j].origin

\* C3: after an insertion made while the viewer is pinned, and again once
\* every settling callback has fired, the scroller is within 32px of the
\* bottom.
PinnedStaysAtBottom ==
    (hist.pinnedRun /\ (hist.op = "insert" \/ Settled))
        => Dist(sc) <= NearBottom

\* C4: whenever no page change of the pager is waiting for its animation
\* frames (and no insertion is executing, which holds between handlers),
\* STATE.insertingEmbed is false.
SuppressionReturnsToFalse ==
    frames = <<>> => ~sc.insertingEmbed

\* C5: the pager's index stays within 0..n-1, previous at 0 and next at n-1
\* leave it where it is, and exactly one item is displayed.
PagerClampsAndShowsOne ==
    LET n == Len(pager.items)
    IN n >= 2 =>
        /\ pager.idx \in 0..(n - 1)
        /\ Cardinality({k \in 1..n : pager.disp[k]}) = 1
        /\ pager.disp[pager.idx + 1]
        /\ hist.op = "prev" => pager.idx = Max(0, hist.idx0 - 1)
        /\ hist.op \in {"next", "item"} => pager.idx = Min(n - 1, hist.idx0 + 1)

PagerAtLastStays ==
    /\ Len(pager.items) = 3
    /\ hist.op = "next"
    /\ hist.idx0 = 2
    /\ pager.idx = 2
    /\ pager.disp = <<FALSE, FALSE, TRUE>>

\* C6: when the structured source of a tweet fails and a mirror has a photo,
\* the answer is ok and carries the photo, and the rendered card shows the
\* photo and links to the original URL.
PrimaryFails(env) ==
    \/ env.byId.st = "throw"
    \/ env.byId.st = "ok" /\ ~env.byId.json
    \/ env.byId.st = "notok" /\ (env.byUrl.st # "ok" \/ ~env.byUrl.json)

MirrorPhoto(env) ==
    IF Len(env.fx.photos) > 0 /\ env.fx.st = "ok" THEN env.fx.photos[1]
    ELSE IF Len(env.vx.photos) > 0 /\ env.vx.st = "ok" THEN env.vx.photos[1]
    ELSE 0

MirrorRescuesTweet ==
    (/\ tw.phase \in {"answered", "rendered"}
     /\ tw.pass = 1
     /\ tw.st.nodes["m1"].anchors[1].url = UTweet
     /\ PrimaryFails(tw.env)
     /\ MirrorPhoto(tw.env) # 0)
        => /\ tw.resp.st = "ok"
           /\ \E i \in 1..Len(tw.resp.photos) : tw.resp.photos[i] = MirrorPhoto(tw.env)
           /\ tw.phase = "rendered" =>
                 /\ \E i \in 1..Len(TheCard.photos) :
                        TheCard.photos[i] = MirrorPhoto(tw.env)
                 /\ TheCard.link = UTweet

\* C7: nothing is embedded or requested for a message read as NSFL while
\* hide-NSFL is checked, nor for one read as NSFW while hide-NSFW is checked
\* and show-removed is '0'; a message with both markers is read as NSFL.
HiddenBy(c) ==
    \/ c.nsfl /\ c.hideNsfl
    \/ c.nsfw /\ ~c.nsfl /\ c.hideNsfw /\ c.showRemoved = "0"

ReadAs(c) == IF c.nsfl THEN "NSFL" ELSE IF c.nsfw THEN "NSFW" ELSE ""

HiddenMessagesGetNoCard ==
    /\ \A n \in Nodes : \A w \in WrapsOf(n) :
          /\ ~HiddenBy(w.ctx)
          /\ w.origin.tag = "url" => w.sens = ReadAs(w.ctx)
    /\ \A rq \in pending : ~HiddenBy(rq.ctx)
    /\ (/\ trace.op \in {"batch", "visible"}
        /\ \A i \in 1..Len(trace.batch) :
              HiddenBy(Ctx(nodes[trace.batch[i]], Anchor(NoUrl, ""))))
          => trace.ins = 0 /\ trace.sent = 0

\* the NSFW link, skipped by a scan while show-removed was '0', is embedded
\* by the next scan after the control was switched
NsfwShownAfterSwitch ==
    /\ scans = 2
    /\ trace.op = "visible" /\ trace.batch = <<"m1">> /\ trace.ins = 1
    /\ Len(nodes["m1"].wraps) = 1
    /\ nodes["m1"].nsfw /\ ~nodes["m1"].nsfl
    /\ nodes["m1"].wraps[1].ctx.hideNsfw
    /\ nodes["m1"].wraps[1].ctx.showRemoved = "1"
    /\ nodes["m2"].wraps = <<>>


\* C8: when the Instagram mirror fails or has neither video nor image, the
\* callback inserts exactly one card with the primary page's preview image
\* if the page had one and nothing otherwise; no Instagram callback inserts
\* more than one card, and the primary callback never both inserts and asks
\* the mirror.
LastWrap(n) == nodes[n].wraps[Len(nodes[n].wraps)]

InstagramFallsBackToPreview ==
    trace.op = "respond" =>
        /\ (/\ trace.cb = "ig2"
            /\ (~trace.ok \/ (~trace.video /\ ~trace.image)))
              => IF trace.img
                 THEN /\ trace.ins = 1
                      /\ LastWrap(trace.batch[1]).kind = "igimg"
                      /\ LastWrap(trace.batch[1]).origin =
                             canonicalizeInstagramUrl(trace.href)
                 ELSE trace.ins = 0
        /\ trace.cb = "ig2" => trace.ins <= 1 /\ trace.sent = 0
        /\ trace.cb = "ig1" => trace.ins + trace.sent <= 1

MirrorFailedPreviewShown ==
    /\ trace.op = "respond" /\ trace.cb = "ig2"
    /\ ~trace.ok /\ trace.img
    /\ trace.ins = 1
    /\ LastWrap("m1").kind = "igimg"

EveryAnchorIsTried ==
    trace.op \in {"batch", "visible"} => trace.tried = trace.due

-----------------------------------------------------------------------------
(* Classification: the README's examples, the login heuristic, the flags   *)

\* the seven links of the README's testing snippet
ReadmeLinks == {UMp4, UImgur, UTweet, UYouTubeWatch, UTwitch, UKick, UInsta}

IsScan == trace.op \in {"batch", "visible"}

\* C11: with the default settings on a logged-in page, a scan of a message
\* whose only link is one of the README's seven examples inserts a card or
\* sends a resolver request.
ReadmeLinksAreSupported ==
    (/\ IsScan /\ trace.batch = <<"m1">>
     /\ settings = DEFAULTS /\ ~LoggedOutHeuristic(page)
     /\ Len(nodes["m1"].anchors) = 1
     /\ nodes["m1"].anchors[1].url \in ReadmeLinks)
        => trace.ins + trace.sent >= 1

AllRequests == pending

\* C12: while the page text holds "log in" and not "logout", a tryEmbed call
\* inserts no card and sends no request: no wrapper and no request comes of
\* a call that read such a page, and a scan (or a shortlink's callback) run
\* on such a page inserts and sends nothing.
LoggedOutPageGetsNothing ==
    /\ \A n \in Nodes : \A w \in WrapsOf(n) : ~(w.ctx.logIn /\ ~w.ctx.logout)
    /\ \A rq \in AllRequests : ~(rq.ctx.logIn /\ ~rq.ctx.logout)
    /\ (/\ page.logIn /\ ~page.logout
        /\ (IsScan \/ (trace.op = "respond" /\ trace.cb = "tco")))
           => (trace.ins = 0 /\ trace.sent = 0)

\* a scan tried a direct video link on a logged-out page and left it alone
LoggedOutScanLeftVideoAlone ==
    /\ page.logIn /\ ~page.logout
    /\ IsScan /\ trace.tried >= 1 /\ trace.batch = <<"m1">>
    /\ nodes["m1"].anchors[1].url = UMp4
    /\ nodes["m1"].wraps = <<>>

\* the flag that gates a wrapper kind / a request's callback
KindFlag(kind) ==
    CASE kind \in {"tweet"} -> "enableTweets"
      [] kind \in {"img", "video", "reddit"} -> "enableMedia"
      [] kind \in {"yt"} -> "enableYouTube"
      [] kind \in {"twitch", "bigscreen"} -> "enableTwitch"
      [] kind \in {"kick"} -> "enableKick"
      [] kind \in {"igvideo", "igimg"} -> "enableInstagram"

CbFlag(cb) ==
    CASE cb \in {"tweet", "tweet2"} -> "enableTweets"
      [] cb \in {"imgur", "reddit"} -> "enableMedia"
      [] cb \in {"ytOembed", "ytLive"} -> "enableYouTube"
      [] cb \in {"twitch", "twitchVod"} -> "enableTwitch"
      [] cb \in {"kick"} -> "enableKick"
      [] cb \in {"ig1", "ig2"} -> "enableInstagram"

\* C13: a card of a kind, and a resolver request of a kind, only comes of a
\* tryEmbed call that read the kind's flag as true.
DisabledKindsStayOut ==
    /\ \A n \in Nodes : \A w \in WrapsOf(n) : w.ctx.set[KindFlag(w.kind)]
    /\ \A rq \in pending : rq.cb # "tco" => rq.ctx.set[CbFlag(rq.cb)]

\* a scan tried a tweet link while enableTweets was off and left it alone
DisabledTweetLeftAlone ==
    /\ ~settings.enableTweets
    /\ IsScan /\ trace.tried >= 1 /\ trace.batch = <<"m1">>
    /\ nodes["m1"].anchors[1].url = UTweet
    /\ nodes["m1"].wraps = <<>> /\ pending = {}

-----------------------------------------------------------------------------
(* The background worker: bgFetch's allow-list, the stored settings        *)

\* C14: bgFetch calls fetch() only for a URL whose hostname is on the
\* background allow-list; for any other host it answers ok:false with error
\* 'blocked_by_whitelist' and fetches nothing; an unparsable URL and a
\* failing fetch are answered ok:false.
BgFetchFetchesOnlyAllowListed ==
    bgf.phase = "answered" =>
        /\ bgf.resp.net => (bgf.url.tag = "url" /\ bgf.url.host \in BG_WHITELIST)
        /\ (bgf.url.tag = "url" /\ bgf.url.host \notin BG_WHITELIST)
              => (/\ bgf.resp.st = "fail" /\ ~bgf.resp.net
                  /\ bgf.resp.error = "blocked_by_whitelist")
        /\ (bgf.url.tag # "url" \/ bgf.up.st = "throw") => bgf.resp.st = "fail"

\* a catbox URL (not on the background's list) was answered as blocked
CatboxFetchBlocked ==
    /\ bgf.phase = "answered" /\ bgf.url = UMp4 /\ bgf.up.st = "ok"
    /\ bgf.resp.error = "blocked_by_whitelist" /\ ~bgf.resp.net

\* C15: after onInstalled every key that was in storage has the value it
\* had and every other key of DEFAULTS has its default; getSettings answers
\* DEFAULTS overlaid by what storage holds.
InstallKeepsStoredSettings ==
    /\ sto.op = "installed" =>
          /\ DOMAIN sto.store = DOMAIN sto.before \cup DOMAIN DEFAULTS
          /\ \A k \in DOMAIN sto.before : sto.store[k] = sto.before[k]
          /\ \A k \in DOMAIN DEFAULTS \ DOMAIN sto.before :
                sto.store[k] = DEFAULTS[k]
    /\ sto.op = "get" =>
          /\ DOMAIN sto.answer = DOMAIN sto.store \cup DOMAIN DEFAULTS
          /\ \A k \in DOMAIN sto.store : sto.answer[k] = sto.store[k]
          /\ \A k \in DOMAIN DEFAULTS \ DOMAIN sto.store :
                sto.answer[k] = DEFAULTS[k]

\* installed over a store that had blurMedia on and no enableTweets
InstalledOverPartialStore ==
    /\ sto.op = "installed"
    /\ "blurMedia" \in DOMAIN sto.before /\ sto.before["blurMedia"]
    /\ "enableTweets" \notin DOMAIN sto.before
    /\ sto.store["blurMedia"] /\ sto.store["enableTweets"]

-----------------------------------------------------------------------------
(* Links inside cards                                                      *)

OpensSafely(l) ==
    l.target = "_blank" /\ {"noopener", "noreferrer"} \subseteq l.rel

LinksOpenSafely(ws) ==
    \A i \in 1..Len(ws) : \A j \in 1..Len(ws[i].as) : OpensSafely(ws[i].as[j])

\* C16: after a card render, a re-render and an in-card shortlink expansion,
\* every <a href> inside a card wrapper has target "_blank" and a rel that
\* holds noopener and noreferrer.
CardLinksOpenInNewTab ==
    /\ \A n \in Nodes : LinksOpenSafely(nodes[n].wraps)
    /\ tw.phase # "off" => \A n \in Nodes : LinksOpenSafely(tw.st.nodes[n].wraps)

\* a card rendered from the oEmbed html whose shortlink was expanded
ExpandedOEmbedLink ==
    /\ tw.phase = "rendered" /\ TheCard.body = "oembed"
    /\ \E j \in 1..Len(TheCard.as) :
          /\ TheCard.as[j].part = "text"
          /\ TheCard.as[j].href = UPng
          /\ OpensSafely(TheCard.as[j])

-----------------------------------------------------------------------------
(* One intent per call                                                     *)

\* the cards (by position in the message) that the pending requests feed
ChainsOf(n) == { rq.wi : rq \in { q \in pending : q.node = n } }

\* C17: one tryEmbed call inserts at most one card and starts at most one
\* resolver chain (seen on the first scan of a message with one link, where
\* tryEmbed ran once).
OneIntentPerCall ==
    (/\ scans = 1 /\ IsScan /\ trace.batch = <<"m1">> /\ trace.tried = 1)
        => (trace.ins <= 1 /\ Cardinality(ChainsOf("m1")) <= 1)

-----------------------------------------------------------------------------
(* The scroll lock: insertions, pager locks, the viewer's scrolls          *)

\* C18: when safeAppendEmbed has finished, by return or by an exception of
\* appendChild, STATE.insertingEmbed is false and STATE.stickyWanted has the
\* value it had before the call.
AppendRestoresFlags ==
    hist.op \in {"insert", "insertThrew"} =>
        (~sc.insertingEmbed /\ sc.stickyWanted = hist.pinnedRun)

\* appendChild threw while a pager lock was held and the viewer was pinned
ThrewUnderPagerLock ==
    /\ hist.op = "insertThrew" /\ hist.pinnedRun /\ frames # <<>>
    /\ ~sc.insertingEmbed /\ sc.stickyWanted

\* no animation-frame callback is pending: neither of a pager lock nor the
\* first callback of an insertion's schedule
FramesHaveRun ==
    /\ frames = <<>>
    /\ \A k \in 1..Len(settle) : settle[k].step >= 1

\* C19: after any sequence of pager clicks and insertions, once every
\* pending animation-frame callback has run, STATE.insertingEmbed is false.
LockReleasedAfterFrames == FramesHaveRun => ~sc.insertingEmbed

\* C20: while the viewer's last scroll left the view more than 32px above
\* the bottom and no "more messages below" click followed, no insertion,
\* settling timer, media load or resize callback moves scrollTop to the
\* bottom.
AwayViewerIsNotPulledDown ==
    (hist.away /\ hist.op \in {"insert", "settle", "grow", "resized"})
        => ~hist.jumped

\* C21: a click on "more messages below" leaves STATE.stickyWanted true and
\* the scroller at the bottom, and from then on stickyWanted becomes false
\* only in a scroll event handled while not suppressed, or in the click's
\* 1-second timer, that finds the view more than 32px above the bottom.
ClickKeepsStickyUntilScrolledAway ==
    [][ /\ hist'.op = "moreBelow" => (sc'.stickyWanted /\ Dist(sc') = 0)
        /\ (hist.clicked /\ ~sc'.stickyWanted) =>
              \/ hist'.op = "onScroll" /\ ~sc.insertingEmbed
                                       /\ ~isAtBottom(sc, NearBottom)
              \/ hist'.op = "moreBelowTimer" /\ ~isAtBottom(sc, NearBottom) ]_vars

\* C22: STATE.stickyWanted goes from true to false only in a scroll event
\* handled while STATE.insertingEmbed is false and the view is more than
\* 32px above the bottom; a scroll event handled while insertingEmbed is
\* true leaves stickyWanted as it was.
StickyDropsOnlyInFreeScrollEvent ==
    [][ /\ (sc.stickyWanted /\ ~sc'.stickyWanted) =>
              (hist'.op = "onScroll" /\ ~sc.insertingEmbed
                                     /\ ~isAtBottom(sc, NearBottom))
        /\ (hist'.op = "onScroll" /\ sc.insertingEmbed) =>
              sc'.stickyWanted = sc.stickyWanted ]_vars

\* C23: every pager navigation writes the scrollTop captured before the
\* visibility toggle back right after the toggle, in the first and in the
\* second following animation frame; when the second frame has run,
\* scrollTop is the captured value and STATE.stickyWanted is what it was
\* before the navigation.
PagerLockHoldsPosition ==
    [][ (hist'.op = "frame" /\ frames # <<>> /\ Head(frames).stage = 2) =>
            /\ sc'.top = Head(frames).saved
            /\ sc'.stickyWanted = Head(frames).wasStickyWanted ]_vars

-----------------------------------------------------------------------------
(* Spoiler covers                                                          *)

\* the media groups: the wrappers whose card holds an .edgg-tweet-media
Groups == { <<n, wi>> \in Nodes \X (1..MaxReq) :
               wi <= Len(nodes[n].wraps) /\ nodes[n].wraps[wi].covers # <<>> }

\* C24: activating the cover of one item of a media group reveals every
\* covered item of that group (afterwards none of its items is blurred
\* under a cover); the wrappers of other groups are unchanged; and no
\* step covers a revealed item again.
RevealUncoversWholeGroup ==
    [][ /\ trace'.op = "reveal" =>
              LET n == trace'.batch[1]
                  wi == trace'.wi
              IN /\ \A k \in DOMAIN nodes'[n].wraps[wi].covers :
                        nodes'[n].wraps[wi].covers[k] # "covered"
                 /\ ~nodes'[n].wraps[wi].spoiler
                 /\ \A g \in Groups :
                        g # <<n, wi>> =>
                            nodes'[g[1]].wraps[g[2]] = nodes[g[1]].wraps[g[2]]
        /\ \A g \in Groups :
              \A k \in DOMAIN nodes[g[1]].wraps[g[2]].covers :
                  nodes[g[1]].wraps[g[2]].covers[k] = "revealed" =>
                      /\ g[2] <= Len(nodes'[g[1]].wraps)
                      /\ k \in DOMAIN nodes'[g[1]].wraps[g[2]].covers
                      /\ nodes'[g[1]].wraps[g[2]].covers[k] = "revealed" ]_vars

\* a click has revealed a group of several items while another group
\* still has its covers
RevealedOneGroupOfTwo ==
    /\ trace.op = "reveal"
    /\ LET w == nodes[trace.batch[1]].wraps[trace.wi]
       IN /\ Len(w.covers) >= 2
          /\ \A k \in DOMAIN w.covers : w.covers[k] = "revealed"
    /\ \E g \in Groups :
          /\ g # <<trace.batch[1], trace.wi>>
          /\ \E k \in DOMAIN nodes[g[1]].wraps[g[2]].covers :
                nodes[g[1]].wraps[g[2]].covers[k] = "covered"

\* C25: every inserted card that holds an image or a video has a spoiler
\* cover over that media (until the viewer reveals it) exactly when the
\* message carries a sensitivity label or the blur-all setting is on, for
\* every kind of card.
SensitiveMediaIsCovered ==
    \A n \in Nodes :
        \A i \in 1..Len(nodes[n].wraps) :
            LET w == nodes[n].wraps[i]
                label == getSensitivityLabel([nsfw |-> w.ctx.nsfw,
                                              nsfl |-> w.ctx.nsfl])
                revealed == \E k \in DOMAIN w.covers : w.covers[k] = "revealed"
            IN w.media =>
                  ((w.spoiler \/ revealed) <=> (w.ctx.set.blurMedia \/ label # ""))

-----------------------------------------------------------------------------
(* Shortlinks                                                              *)

\* the requests and wrappers a step has added
NewRequests == { rq \in pending' : rq.id > nextId }

NewWraps(n) ==
    { nodes'[n].wraps[i] : i \in (Len(nodes[n].wraps) + 1)..Len(nodes'[n].wraps) }

-----------------------------------------------------------------------------
(* The order of fetchTweet's endpoints                                     *)

\* the position of endpoint e among the requests of the handled message
\* (0: not requested)
Asked(e) ==
    IF \E i \in 1..Len(tw.log) : tw.log[i] = e
    THEN CHOOSE i \in 1..Len(tw.log) : tw.log[i] = e
    ELSE 0

\* the message's URL carries a numeric post id
AskedWithId == HasStatusPath(tw.st.nodes["m1"].anchors[1].url)

\* a structured endpoint that was requested answered OK
StructuredOk ==
    \/ Asked("byId") > 0 /\ tw.env.byId.st = "ok"
    \/ Asked("byUrl") > 0 /\ tw.env.byUrl.st = "ok"

\* a mirror that was requested answered with media
MirrorYielded ==
    \E m \in {"fx", "vxapi", "vx"} :
        /\ Asked(m) > 0
        /\ tw.env[m].st = "ok"
        /\ Len(tw.env[m].photos) > 0 \/ tw.env[m].videos > 0

\* C27: fetchTweet requests the by-id endpoint first whenever the URL has
\* a numeric id; the by-URL endpoint only after by-id was not OK, or first
\* when there is no id; the answer has source 'oembed' only after the
\* structured source and every mirror gave no result; the source is 'cdn'
\* exactly when a structured response was OK, and 'vx' exactly when none
\* was and a mirror yielded media.
EndpointsInOrder ==
    (tw.phase = "answered" /\ tw.pass = 1) =>
        /\ Len(tw.log) > 0
        /\ tw.log[1] = IF AskedWithId THEN "byId" ELSE "byUrl"
        /\ Asked("byUrl") > 1 =>
              (Asked("byId") = 1 /\ Asked("byUrl") = 2 /\ tw.env.byId.st = "notok")
        /\ tw.resp.source = "oembed" =>
              /\ ~StructuredOk /\ ~MirrorYielded
              /\ Asked("oembed") = Len(tw.log)
              /\ AskedWithId =>
                    \A m \in {"fx", "vxapi", "vx"} :
                        Asked(m) > 0 /\ Asked(m) < Asked("oembed")
        /\ tw.resp.source = "cdn" <=> StructuredOk
        /\ tw.resp.source = "vx" <=> (~StructuredOk /\ MirrorYielded)

-----------------------------------------------------------------------------
(* The media of a tweet card                                               *)

\* C28: a rendered tweet card holds at most 4 photo elements and at most 2
\* video elements, whether renderTweetInto or the oEmbed render made it,
\* whatever the number of photos and videos in the answer.
TweetCardCapsMedia ==
    (tw.phase # "off" /\ TheCard.body \in {"oembed", "rendered"}) =>
        (Len(TheCard.photos) <= 4 /\ TheCard.videos <= 2)

-----------------------------------------------------------------------------
(* The second pass of the oEmbed render                                    *)

\* C29: a tweet card has at most two fetchTweet requests issued for it, and
\* once the second one is out, no step changes whose text the card shows
\* nor, where the first pass showed an author, whose author it shows: the
\* second pass's render keeps the text and author of the first.
SecondPassKeepsFirstRender ==
    [][ (tw.phase # "off" /\ tw'.phase # "off") =>
           /\ TheCard'.passes <= 2
           /\ TheCard.passes = 2 =>
                 /\ TheCard'.textOf = TheCard.textOf
                 /\ TheCard.userOf # 0 => TheCard'.userOf = TheCard.userOf ]_vars

\* the second pass is never followed by a third
NoThirdPass == tw.phase # "off" => TheCard.passes <= 2

\* the second pass keeps the first pass's text when its answer has none
SecondPassWithoutTextKeepsText ==
    [][ (tw.phase # "off" /\ tw'.phase # "off" /\ TheCard.passes = 2
         /\ ~tw.resp.text /\ ~tw.resp.ohtml) =>
           TheCard'.textOf = TheCard.textOf ]_vars

SecondPassRendered ==
    tw.phase = "rendered" /\ TheCard.passes = 2 /\ TheCard.body = "rendered"

-----------------------------------------------------------------------------
(* Thumbnail refresh                                                       *)

TimersOf(t, i) == {x \in t.active : x.img = i}

\* C30: every image has at most one scheduled refresh timer, also after a
\* restart; the timer that ticks is that one; a tick changes no src but
\* that of its own image, and that only when the image is connected and
\* its card in view; a tick of a connected image whose card is off-screen
\* changes neither an image nor the scheduled timers; a tick of a detached
\* image leaves no timer scheduled for it, so that no later tick occurs.
RefreshTimerDiscipline ==
    [][ tm.phase = "on" =>
          /\ \A i \in Imgs : Cardinality(TimersOf(tm', i)) <= 1
          /\ tm'.last.op = "tick" =>
               LET i == tm'.last.img
                   was == tm.img[i]
               IN /\ \A j \in Imgs :
                        tm'.img[j].src # tm.img[j].src =>
                            j = i /\ was.connected /\ was.inView
                  /\ (was.connected /\ ~was.inView) =>
                        tm'.img = tm.img /\ tm'.active = tm.active
                  /\ ~was.connected => TimersOf(tm', i) = {} ]_vars

\* the only image ever started was started twice, refreshed, then detached,
\* and the next tick cancelled its second timer
RestartedTimerCancelled ==
    /\ tm.phase = "on"
    /\ tm.last.op = "tick" /\ tm.last.id = 2
    /\ \A j \in Imgs \ {tm.last.img} :
           tm.img[j].connected /\ tm.img[j].twTimer = 0 /\ tm.img[j].thumbTimer = 0
    /\ ~tm.img[tm.last.img].connected
    /\ tm.img[tm.last.img].src # 0
    /\ TimersOf(tm, tm.last.img) = {}
    /\ tm.ids = tm.last.id

-----------------------------------------------------------------------------
(* Stream cards                                                            *)

StreamWraps ==
    {w \in UNION {{nodes[n].wraps[i] : i \in DOMAIN nodes[n].wraps} : n \in Nodes} :
        w.kind \in {"twitch", "kick", "bigscreen"}}

\* C31: a Twitch or Kick card shows the live title exactly when a thumbnail
\* refresh was started for it: a live page gives both, any other answer
\* gives neither.
LiveCardsRefresh ==
    \A w \in StreamWraps : (w.title = "live") <=> w.refresh

\* the same for the cards of Twitch links alone
LiveTwitchCardsRefresh ==
    \A w \in StreamWraps : w.kind # "kick" => ((w.title = "live") <=> w.refresh)

LiveTwitchCardRefreshed ==
    \E w \in StreamWraps : w.kind = "twitch" /\ w.title = "live" /\ w.refresh

-----------------------------------------------------------------------------
(* Insertion order and completion order                                    *)

\* the requests whose card tryEmbed appended before it sent them
HoldsCard(rq) ==
    rq.cb \in {"tweet", "tweet2", "ytOembed", "ytLive", "twitch", "twitchVod", "kick"}

\* the place among the message's wrappers of the card that the completing
\* request rq has after its callback (0: it has none)
CardPlace(rq) ==
    IF Len(nodes'[rq.node].wraps) > Len(nodes[rq.node].wraps)
    THEN Len(nodes'[rq.node].wraps)
    ELSE IF HoldsCard(rq) THEN rq.wi ELSE 0

\* C32: when a resolution completes while another one of the same message
\* is still in flight, the card of the completing one is not inserted after
\* the card of the one that completes later: wrappers are inserted in the
\* order of completion.
InsertedInCompletionOrder ==
    [][ \A rq \in pending \ pending', later \in pending \cap pending' :
           (trace'.op = "respond" /\ later.node = rq.node /\ HoldsCard(later)) =>
               ~(later.wi < CardPlace(rq)) ]_vars

\* the resolutions that insert on completion keep the claim among themselves
CompletionInsertsAppend ==
    [][ \A rq \in pending \ pending' :
           (trace'.op = "respond" /\ ~HoldsCard(rq)) =>
               /\ Len(nodes'[rq.node].wraps) >= Len(nodes[rq.node].wraps)
               /\ \A i \in DOMAIN nodes[rq.node].wraps :
                     nodes'[rq.node].wraps[i] = nodes[rq.node].wraps[i] ]_vars

-----------------------------------------------------------------------------
(* Completions for removed messages and cards                              *)

\* C33: once a message or a card was removed, the completion of a
\* resolution for it attaches no wrapper to the document and leaves the
\* scroll position alone, as do the load events of the media it rendered;
\* a tick of a refresh timer it started leaves no timer for that image.
GoneCompletionChangesNothing ==
    [][ /\ (trace'.op = "respond" /\ pending' # pending) =>
              /\ LiveWraps(nodes') = LiveWraps(nodes)
              /\ sc'.top = sc.top
        /\ (trace'.op = "cardLoad" /\ nodes' # nodes) => sc'.top = sc.top
        /\ (tm'.last.op = "tick" /\ tm' # tm) =>
              TimersOf(tm', tm'.last.img) = {} ]_vars

\* the same without the load events of the rendered media
GoneCompletionItself ==
    [][ /\ (trace'.op = "respond" /\ pending' # pending) =>
              /\ LiveWraps(nodes') = LiveWraps(nodes)
              /\ sc'.top = sc.top
        /\ (tm'.last.op = "tick" /\ tm' # tm) =>
              TimersOf(tm', tm'.last.img) = {} ]_vars

-----------------------------------------------------------------------------
(* The settings cache                                                      *)

\* C34: when no setSettings, settingsUpdated or getSettings message and no
\* response is in flight any more, the content script's settings cache is
\* DEFAULTS overlaid by the stored settings.
CacheConvergesToStore ==
    sto.net = {} => settings = Overlay(DEFAULTS, sto.store)

\* the same when every response was applied after those read before it
CacheConvergesInOrder ==
    (sto.net = {} /\ ~sto.stale) => settings = Overlay(DEFAULTS, sto.store)

-----------------------------------------------------------------------------
(* Settings updates and the cards already there                            *)

\* C35: the spoiler state of a card with media is the one that the
\* settings read by the tryEmbed call behind the card give, whatever update
\* of the settings came between that call and the completion of the
\* card's resolution.
CardsKeepSettingsOfTheirCall ==
    \A n \in Nodes : \A w \in WrapsOf(n) :
        (w.media /\ w.kind \notin {"yt", "twitch", "kick", "bigscreen"}) =>
            (w.spoiler <=> (w.ctx.set.blurMedia \/ w.sens # ""))

\* cards whose resolution completed before the update keep their state
SettingsUpdateTouchesNoCard ==
    [][ trace'.op = "settings" => nodes' = nodes /\ pending' = pending ]_vars

-----------------------------------------------------------------------------
(* Reddit posts                                                            *)

\* C36: the background's page fetch hands the JSON of a reddit.com
\* /comments/ post to the resolver whenever the upstream has it, so that
\* the resolver can insert the post's card.
RedditJsonComesThroughBgFetch ==
    (/\ bgf.phase = "answered"
     /\ bgf.url = RedditApiUrl(URedditPost)
     /\ bgf.up.st = "ok" /\ bgf.up.body /\ bgf.up.json) =>
        (bgf.resp.st = "ok" /\ bgf.resp.body)

\* what comes of it in the content script: no Reddit card is ever inserted
NoRedditCardEver ==
    \A n \in Nodes : \A w \in WrapsOf(n) : w.kind # "reddit"

-----------------------------------------------------------------------------
(* Requests and their answers: safeSendMessage, the sendResponse calls of  *)
(* the fetchTweet handler, the first getSettings and init()                *)

\* every outcome of one fetch: transport error, HTTP error, a body that
\* does not parse, a payload without and with content
WireJsonUps ==
    { Up("throw"), Up("notok"), [Up("ok") EXCEPT !.json = FALSE], Up("ok") }

WireMirrorUps ==
    WireJsonUps \cup { [Up("ok") EXCEPT !.photos = <<2, 3>>, !.videos = 1] }

WireOEmbedUps == WireJsonUps \cup { [Up("ok") EXCEPT !.html = TRUE] }

WireEnvs ==
    { [byId |-> a, byUrl |-> b, fx |-> c, vxapi |-> Up("notok"), vx |-> d,
       oembed |-> e] :
        a \in WireJsonUps, b \in WireJsonUps, c \in WireMirrorUps,
        d \in (WireMirrorUps \ WireJsonUps) \cup {Up("notok")},
        e \in WireOEmbedUps }

\* the body of the fetchTweet handler's try block: the sendResponse calls
\* it makes and whether an exception leaves it
fetchTweetBody(u, env) ==
    LET hasId == u.tag = "url" /\ HasStatusPath(u)
        first == IF hasId THEN "byId" ELSE "byUrl"
        r1 == env[first]
        second == r1.st = "notok" /\ first # "byUrl"
        r == IF second THEN env.byUrl ELSE r1
        extra == enrichFromFxVx(env, hasId)
        hasExtra == Len(extra.photos) > 0 \/ extra.videos > 0
        oe == env.oembed
        thrown == \/ r1.st = "throw"
                  \/ r.st = "throw"
                  \/ r.st = "ok" /\ ~r.json
                  \/ /\ r.st = "notok" /\ ~hasExtra
                     /\ oe.st = "throw" \/ (oe.st = "ok" /\ ~oe.json)
    IN [thrown |-> thrown,
        sends |-> IF thrown THEN <<>> ELSE <<FetchTweet(u, env).resp>>]

\* a handler whose catch block answers nothing
fetchTweetNoCatch(u, env) == fetchTweetBody(u, env).sends

\* the fetchTweet handler: the try block, and catch (err) { sendResponse }
fetchTweetHandler(u, env) ==
    LET b == fetchTweetBody(u, env)
    IN IF b.thrown THEN Append(b.sends, RFail) ELSE b.sends

\* a safeSendMessage that reports null after every sendMessage
safeSendAlways(alive, throws) ==
    [now |-> 1, registered |-> alive /\ ~throws]

\* safeSendMessage(msg, cb): the cb(null) calls it makes before it returns
\* and whether the runtime holds its callback
safeSendMessage(alive, throws) ==
    [now |-> IF ~alive \/ throws THEN 1 ELSE 0,
     registered |-> alive /\ ~throws]

\* what the store holds when the content script asks
WireStores == { EmptyStore, [k \in {"blurMedia"} |-> TRUE] }

\* a request of the content script: none yet
Request(type) ==
    [type |-> type, phase |-> "new", alive |-> TRUE, err |-> FALSE,
     answers |-> <<>>, cbs |-> 0, arg |-> "", inits |-> 0,
     url |-> NoUrl, env |-> CHOOSE e \in WireEnvs : TRUE, store |-> EmptyStore]

\* cb(res) of the request q; the first getSettings callback ends in init()
Called(q, res) ==
    [q EXCEPT !.cbs = @ + 1, !.arg = res.st,
              !.inits = IF q.type = "getSettings" THEN @ + 1 ELSE @]

RECURSIVE CalledTimes(_, _)
CalledTimes(q, k) == IF k = 0 THEN q ELSE CalledTimes(Called(q, R0), k - 1)

\* the content script calls safeSendMessage for the request q
Sent(q, alive, throws) ==
    LET s == safeSendMessage(alive, throws)
    IN [CalledTimes(q, s.now) EXCEPT
           !.alive = alive,
           !.phase = IF s.registered THEN "registered" ELSE "done"]

\* the runtime invokes the callback given to sendMessage, once: with the
\* first answer, or with lastError set when there is none or the context
\* went away
Delivered(q, lost) ==
    LET lastError == lost \/ Len(q.answers) = 0
    IN [Called(q, IF lastError THEN R0 ELSE q.answers[1]) EXCEPT
           !.err = lastError, !.phase = "done"]

\* the content script starts: safeSendMessage({ type: "getSettings" }, ...)
SendGetSettings ==
    /\ sto.phase = "new"
    /\ \E alive, throws \in BOOLEAN : sto' = Sent(sto, alive, throws)
    /\ UNCHANGED <<settings, tw>>

\* the background's getSettings branch; storage.get resolves or rejects
HandleGetSettings ==
    /\ sto.phase = "registered"
    /\ \E resolves \in BOOLEAN :
          sto' = [sto EXCEPT !.phase = "handled",
                             !.answers = IF resolves
                                         THEN <<[R0 EXCEPT !.st = "ok"]>>
                                         ELSE <<>>]
    /\ UNCHANGED <<settings, tw>>

\* the callback of the first getSettings
GetSettingsCallback ==
    /\ sto.phase = "handled"
    /\ \E lost \in BOOLEAN :
          LET q == Delivered(sto, lost)
          IN /\ sto' = q
             /\ settings' = IF q.arg = "ok"
                            THEN Overlay(settings, Overlay(DEFAULTS, sto.store))
                            ELSE settings
    /\ UNCHANGED tw

\* after init(), a scan sends fetchTweet for a tweet link
SendFetchTweet ==
    /\ sto.phase = "done" /\ tw.phase = "new"
    /\ \E alive, throws \in BOOLEAN, u \in {UTweet, UPicShort}, env \in WireEnvs :
          tw' = Sent([tw EXCEPT !.url = u, !.env = env], alive, throws)
    /\ UNCHANGED <<settings, sto>>

\* the background's fetchTweet branch
HandleFetchTweetRequest ==
    /\ tw.phase = "registered"
    /\ tw' = [tw EXCEPT !.phase = "handled",
                        !.answers = fetchTweetHandler(tw.url, tw.env)]
    /\ UNCHANGED <<settings, sto>>

\* the callback of the fetchTweet request
FetchTweetCallback ==
    /\ tw.phase = "handled"
    /\ \E lost \in BOOLEAN : tw' = Delivered(tw, lost)
    /\ UNCHANGED <<settings, sto>>

InitWire ==
    /\ settings = DEFAULTS /\ page = PageDefault
    /\ nodes = [n \in Nodes |-> Message(<<>>, FALSE, FALSE)]
    /\ EmbedIdle
    /\ sc = ScrollerAt(0) /\ pager = NoPager /\ ScrollIdle
    /\ tm = NoTimers
    /\ bgf = BgOff
    /\ \E st \in WireStores : sto = [Request("getSettings") EXCEPT !.store = st]
    /\ tw = Request("fetchTweet")

WireAside == UNCHANGED <<page, nodes, pending, nextId, scans, trace, scrollVars,
                         timerVars, bgf>>

NextWire ==
    \/ SendGetSettings /\ WireAside
    \/ HandleGetSettings /\ WireAside
    \/ GetSettingsCallback /\ WireAside
    \/ SendFetchTweet /\ WireAside
    \/ HandleFetchTweetRequest /\ WireAside
    \/ FetchTweetCallback /\ WireAside

SpecWire == InitWire /\ [][NextWire]_vars

\* C37: the fetchTweet handler answers every request exactly once, whatever
\* its fetches do; safeSendMessage calls its callback at most once for a
\* request, with null when the extension context is gone or the runtime
\* reports an error; init() never runs twice and has run once when the
\* first getSettings is over, also when that request failed.
EveryRequestAnsweredOnce ==
    /\ tw.phase \in {"handled", "done"} /\ tw.answers # <<>> =>
          /\ Len(tw.answers) = 1
          /\ tw.answers[1] = FetchTweet(tw.url, tw.env).resp
    /\ tw.phase = "handled" => tw.answers # <<>>
    /\ \A q \in {tw, sto} :
          /\ q.cbs <= 1
          /\ q.phase = "done" => q.cbs = 1
          /\ q.phase = "done" /\ (~q.alive \/ q.err) => q.arg = "none"
    /\ sto.inits <= 1
    /\ sto.phase = "done" <=> sto.inits = 1

\* a fetchTweet whose fetch threw was answered and its callback has run,
\* after an init() that followed a failed getSettings
ThrownFetchAnsweredAfterFailedInit ==
    /\ tw.phase = "done" /\ tw.cbs = 1 /\ tw.arg = "fail"
    /\ fetchTweetBody(tw.url, tw.env).thrown
    /\ sto.phase = "done" /\ sto.inits = 1 /\ sto.arg = "none" /\ sto.err

-----------------------------------------------------------------------------
(* Anchors of inserted wrappers                                            *)

\* the anchors the messages of a batch hold themselves
RECURSIVE OwnAnchorCount(_)
OwnAnchorCount(b) ==
    IF b = <<>> THEN 0
    ELSE Len(nodes[Head(b)].anchors) + OwnAnchorCount(Tail(b))

\* C38: a scan passes to tryEmbed only anchors of the messages themselves,
\* never an anchor that lives inside an inserted wrapper.
WrapperAnchorsNeverTried ==
    IsScan => trace.tried <= OwnAnchorCount(trace.batch)

\* the scans the guards of processBatch and maybeEmbedInNode do cover: a
\* message without wrappers below it has only its own anchors tried
FirstScanTriesOwnAnchors ==
    (IsScan /\ scans = 1) => trace.tried <= OwnAnchorCount(trace.batch)

-----------------------------------------------------------------------------
(* Covers of single-media cards                                            *)

\* C39: activating the spoiler cover of any covered media, that of a card
\* outside a tweet media group included, leaves the card without that
\* cover and without the blur.
CoverActivationUncovers ==
    [][ trace'.op \in {"reveal", "revealWrap"} =>
            LET w == nodes'[trace'.batch[1]].wraps[trace'.wi]
            IN /\ ~w.spoiler
               /\ \A k \in DOMAIN w.covers : w.covers[k] # "covered" ]_vars

-----------------------------------------------------------------------------
(* Insertions during a pager lock                                          *)

\* the animation-frame callback of insertion k is due, or the two frames
\* of every page change have fired (they come within two paints, before
\* the 50 ms timer of an insertion made meanwhile)
TimerMayFire(k) ==
    k \in 1..Len(settle) /\ (settle[k].step = 0 \/ frames = <<>>)

\* a pinned viewer pages a tweet card; cards are inserted into a visible
\* message only while a page change waits for its animation frames; the
\* viewer does not scroll
NextLock ==
    \/ settle = <<>> /\ PagerNext /\ Aside
    \/ /\ frames # <<>> /\ sc.stickyWanted
       /\ InsertCard("inview", TRUE, TRUE, FALSE) /\ Aside
    \/ \E k \in 1..MaxIns : TimerMayFire(k) /\ SettleStep(k) /\ Aside
    \/ \E k \in 1..MaxIns : Resized(k) /\ Aside
    \/ PagerFrame /\ Aside
    \/ onScroll /\ Aside

SpecLock == InitM /\ [][NextLock]_vars

\* C40: after a card was inserted for a pinned viewer during a pager lock,
\* once every animation frame and settling timer has fired the scroller is
\* within 32px of the bottom and STATE.stickyWanted is true.
LockedInsertionEndsPinned ==
    (settle # <<>> /\ frames = <<>> /\ Settled) =>
        (Dist(sc) <= NearBottom /\ sc.stickyWanted)

=============================================================================
